---- MODULE Spec2Model ----
(***************************************************************************)
(* Model of the modular Cobblemon spawn-data processor                     *)
(* (src/cobblemon_processor): archive scanner, record indexer, dex         *)
(* matcher, entry merger and the orchestrating run.                        *)
(*                                                                         *)
(* Conventions.                                                            *)
(*  - A Python str is a sequence of atoms.  Names, labels and identifiers  *)
(*    are spelled character by character (<<"0","0","2","5">>); in archive *)
(*    paths the directory names and the extension are single atoms         *)
(*    ("spawn_pool_world", ".json") because the code only ever compares    *)
(*    them whole.                                                          *)
(*  - A Python dict is an insertion-ordered sequence of [k, v] pairs.      *)
(*  - The bytes of an archive entry are modelled by what json.loads makes  *)
(*    of them: kind "empty" (b""), "bad" (not JSON) or "json" with the     *)
(*    decoded document.  A JSON object is a TLA+ record whose DOMAIN is    *)
(*    the set of keys present.                                             *)
(***************************************************************************)
EXTENDS Integers, Sequences, FiniteSets, TLC

VARIABLES
    \* --- archive scanner (archive_extraction.py)
    dir_exists,     \* whether the archive directory exists
    archives,       \* the archive directory: the archive files os.listdir yields
    fut,            \* per archive: state of its future in the worker pool
    fut_res,        \* per archive: the dict returned by _extract_from_archive
    all_files,      \* flat dict  path -> (bytes, archive, leaf)
    spawn_files, species_files, species_addition_files,
    \* --- indexer and matcher (dex_matching.py)
    spawn_dex, species_dex, matched,
    \* --- the entry merger called on one key (data_processing.py)
    entry_key, entry_result,
    \* --- a writer called on its own (output_writer.py)
    batch_arg,      \* the batch_size argument of the call
    \* --- the run (main.py)
    mode,           \* --mode
    task,           \* per key of iter_keys: state of its process_with_limit task
    sem,            \* permits of asyncio.Semaphore(10) still free
    normal_results, \* per key: what process_entry returned
    rows, skipped, addition_rows,
    rows_sorted, skipped_sorted, additions_sorted,
    written,        \* the CSV files written so far: filename -> content
    pc              \* where the main coroutine stands

scanVars  == <<dir_exists, archives, fut, fut_res, all_files>>
fileVars  == <<spawn_files, species_files, species_addition_files>>
indexVars == <<spawn_dex, species_dex, matched>>
entryVars == <<entry_key, entry_result, batch_arg>>
runVars   == <<mode, task, sem, normal_results, rows, skipped, addition_rows,
               rows_sorted, skipped_sorted, additions_sorted, written>>
vars      == <<scanVars, fileVars, indexVars, entryVars, runVars, pc>>

-----------------------------------------------------------------------------
(* Python str methods, on sequences of atoms                               *)

LowerChars == <<"a","b","c","d","e","f","g","h","i","j","k","l","m",
                "n","o","p","q","r","s","t","u","v","w","x","y","z">>
UpperChars == <<"A","B","C","D","E","F","G","H","I","J","K","L","M",
                "N","O","P","Q","R","S","T","U","V","W","X","Y","Z">>

Range(s) == { s[i] : i \in DOMAIN s }

IsLower(c) == c \in Range(LowerChars)
IsUpper(c) == c \in Range(UpperChars)
IsCased(c) == IsLower(c) \/ IsUpper(c)
IsDigit(c) == c \in {"0","1","2","3","4","5","6","7","8","9"}

ToUpper(c) ==
    IF IsLower(c) THEN UpperChars[CHOOSE i \in DOMAIN LowerChars : LowerChars[i] = c] ELSE c
ToLower(c) ==
    IF IsUpper(c) THEN LowerChars[CHOOSE i \in DOMAIN UpperChars : UpperChars[i] = c] ELSE c

\* str.lower()
Lower(s) == [i \in DOMAIN s |-> ToLower(s[i])]

\* str.title(): a cased character is upper-cased after an uncased one (or at
\* the start) and lower-cased after a cased one.
Title(s) ==
    [i \in DOMAIN s |->
        IF i = 1 \/ ~IsCased(s[i - 1]) THEN ToUpper(s[i]) ELSE ToLower(s[i])]

\* str.capitalize()
Capitalize(s) == [i \in DOMAIN s |-> IF i = 1 THEN ToUpper(s[i]) ELSE ToLower(s[i])]

\* str.startswith / str.endswith
StartsWith(s, p) == Len(p) <= Len(s) /\ SubSeq(s, 1, Len(p)) = p
EndsWith(s, p) == Len(p) <= Len(s) /\ SubSeq(s, Len(s) - Len(p) + 1, Len(s)) = p

\* str.lstrip(ch): drop every leading ch
RECURSIVE LStripChar(_, _)
LStripChar(s, ch) ==
    IF s # <<>> /\ Head(s) = ch THEN LStripChar(Tail(s), ch) ELSE s

RECURSIVE RStripChar(_, _)
RStripChar(s, ch) ==
    IF s # <<>> /\ s[Len(s)] = ch THEN RStripChar(SubSeq(s, 1, Len(s) - 1), ch) ELSE s

\* str.strip(): whitespace is the single atom " "
Strip(s) == RStripChar(LStripChar(s, " "), " ")

\* len(s): every atom is one character, but for the extension ".json"
RECURSIVE StrLen(_)
StrLen(s) ==
    IF s = <<>> THEN 0 ELSE (IF Head(s) = ".json" THEN 5 ELSE 1) + StrLen(Tail(s))

\* str.zfill(width): left-pad with "0"; a leading sign stays in front
RECURSIVE PadZeros(_, _)
PadZeros(s, width) == IF StrLen(s) >= width THEN s ELSE PadZeros(<<"0">> \o s, width)

ZFill(s, width) ==
    IF StrLen(s) >= width THEN s
    ELSE IF s # <<>> /\ Head(s) \in {"+", "-"}
         THEN <<Head(s)>> \o PadZeros(Tail(s), width - 1)
         ELSE PadZeros(s, width)

\* str.replace(old, new): leftmost, non-overlapping occurrences
RECURSIVE Replace(_, _, _)
Replace(s, old, new) ==
    IF s = <<>> THEN <<>>
    ELSE IF StartsWith(s, old)
         THEN new \o Replace(SubSeq(s, Len(old) + 1, Len(s)), old, new)
         ELSE <<Head(s)>> \o Replace(Tail(s), old, new)

\* sep.join(parts)
RECURSIVE Join(_, _)
Join(parts, sep) ==
    IF parts = <<>> THEN <<>>
    ELSE IF Len(parts) = 1 THEN parts[1]
         ELSE parts[1] \o sep \o Join(Tail(parts), sep)

\* str(n) for an int n
DigitChars == <<"0","1","2","3","4","5","6","7","8","9">>

RECURSIVE NatToStr(_)
NatToStr(n) ==
    IF n < 10 THEN <<DigitChars[n + 1]>>
    ELSE NatToStr(n \div 10) \o <<DigitChars[(n % 10) + 1]>>

IntToStr(n) == IF n < 0 THEN <<"-">> \o NatToStr(-n) ELSE NatToStr(n)

\* first index of atom ch in s, 0 when absent
IndexOf(s, ch) ==
    IF ch \in Range(s) THEN CHOOSE i \in DOMAIN s : s[i] = ch /\ \A j \in 1..(i - 1) : s[j] # ch
    ELSE 0

\* last index of atom ch in s, 0 when absent
LastIndexOf(s, ch) ==
    IF ch \in Range(s) THEN CHOOSE i \in DOMAIN s : s[i] = ch /\ \A j \in (i + 1)..Len(s) : s[j] # ch
    ELSE 0

\* s.split(ch)[0]
SplitFirst(s, ch) == IF IndexOf(s, ch) = 0 THEN s ELSE SubSeq(s, 1, IndexOf(s, ch) - 1)

\* os.path.basename / os.path.dirname
Basename(path) == SubSeq(path, LastIndexOf(path, "/") + 1, Len(path))
Dirname(path) == SubSeq(path, 1, LastIndexOf(path, "/") - 1)

-----------------------------------------------------------------------------
(* Python dict, insertion ordered                                          *)

EmptyDict == <<>>

DictKeys(d) == { d[i].k : i \in DOMAIN d }
DictHas(d, key) == key \in DictKeys(d)
DictPos(d, key) == CHOOSE i \in DOMAIN d : d[i].k = key
DictGet(d, key, default) == IF DictHas(d, key) THEN d[DictPos(d, key)].v ELSE default

\* d[key] = val : an existing key keeps its place and takes the new value
DictSet(d, key, val) ==
    IF DictHas(d, key)
    THEN [d EXCEPT ![DictPos(d, key)] = [k |-> key, v |-> val]]
    ELSE Append(d, [k |-> key, v |-> val])

\* d.update(e)
RECURSIVE DictUpdate(_, _)
DictUpdate(d, e) ==
    IF e = <<>> THEN d ELSE DictUpdate(DictSet(d, Head(e).k, Head(e).v), Tail(e))

\* no key twice (what a dict is)
IsDict(d) == \A i, j \in DOMAIN d : d[i].k = d[j].k => i = j

-----------------------------------------------------------------------------
(* Python values                                                           *)

\* Optional[x]: None, or a value
None == [some |-> FALSE]
Some(x) == [some |-> TRUE, val |-> x]
IsNone(o) == ~o.some

\* JSON scalars that may stand where the code expects something else
JNull == [t |-> "null"]
JInt(n) == [t |-> "int", v |-> n]
JStr(s) == [t |-> "str", v |-> s]
JBool(b) == [t |-> "bool", v |-> b]

\* dict.get(key, default) on a JSON object
Get(obj, key, default) == IF key \in DOMAIN obj THEN obj[key] ELSE default

\* str(x) of a JSON scalar: str(None) is "None", str(25) is "25"
PyStr(x) ==
    CASE x.t = "null" -> <<"N","o","n","e">>
      [] x.t = "bool" -> IF x.v THEN <<"T","r","u","e">> ELSE <<"F","a","l","s","e">>
      [] x.t = "int"  -> IntToStr(x.v)
      [] x.t = "str"  -> x.v

\* bytes of an entry, by what json.loads makes of them
EmptyBytes == [kind |-> "empty"]
BadBytes == [kind |-> "bad"]
JsonBytes(doc) == [kind |-> "json", doc |-> doc]

\* json.loads(blob): ok with the document, or an exception
Loads(blob) ==
    IF blob.kind = "json" THEN [ok |-> TRUE, doc |-> blob.doc] ELSE [ok |-> FALSE]

-----------------------------------------------------------------------------
(* dex_matching.py                                                         *)

\* _dex_from_filename without the lstrip("0")
DexFromFilenameNoStrip(path) == ZFill(SplitFirst(Basename(path), "_"), 4)

\* _dex_from_filename
DexFromFilename(path) ==
    LET base == Basename(path)
        dex  == SplitFirst(base, "_")
    IN  ZFill(LStripChar(dex, "0"), 4)

\* build_spawn_dex_dict: path -> (bytes, archive, leaf) becomes
\* dex -> (path, bytes, archive, leaf), in the iteration order of spawn_files
RECURSIVE BuildSpawnDexFrom(_, _)
BuildSpawnDexFrom(files, out) ==
    IF files = <<>> THEN out
    ELSE LET path == Head(files).k
             f    == Head(files).v
         IN  IF EndsWith(path, <<".json">>)
             THEN BuildSpawnDexFrom(Tail(files),
                      DictSet(out, DexFromFilename(path),
                              [path |-> path, blob |-> f.blob, arch |-> f.arch, leaf |-> f.leaf]))
             ELSE BuildSpawnDexFrom(Tail(files), out)

\* build_spawn_dex_dict keeping the first file of a key instead of the last
RECURSIVE BuildSpawnDexFirstFrom(_, _)
BuildSpawnDexFirstFrom(files, out) ==
    IF files = <<>> THEN out
    ELSE LET path == Head(files).k
             f    == Head(files).v
         IN  IF EndsWith(path, <<".json">>) /\ ~DictHas(out, DexFromFilename(path))
             THEN BuildSpawnDexFirstFrom(Tail(files),
                      DictSet(out, DexFromFilename(path),
                              [path |-> path, blob |-> f.blob, arch |-> f.arch, leaf |-> f.leaf]))
             ELSE BuildSpawnDexFirstFrom(Tail(files), out)

build_spawn_dex_dict_first_wins(files) == BuildSpawnDexFirstFrom(files, EmptyDict)

build_spawn_dex_dict(files) == BuildSpawnDexFrom(files, EmptyDict)

\* the key build_species_dex_dict computes from the parsed JSON:
\* str(data.get("nationalPokedexNumber", "")).zfill(4)
SpeciesDexKey(data) == ZFill(PyStr(Get(data, "nationalPokedexNumber", JStr(<<>>))), 4)

\* the guard  `if dex and dex != "None"`
SpeciesDexKeyAccepted(dex) == dex # <<>> /\ dex # <<"N","o","n","e">>

\* build_species_dex_dict: entries that do not parse are dropped
RECURSIVE BuildSpeciesDexFrom(_, _)
BuildSpeciesDexFrom(files, out) ==
    IF files = <<>> THEN out
    ELSE LET path == Head(files).k
             f    == Head(files).v
             p    == Loads(f.blob)
         IN  IF ~EndsWith(path, <<".json">>) \/ ~p.ok
             THEN BuildSpeciesDexFrom(Tail(files), out)
             ELSE IF SpeciesDexKeyAccepted(SpeciesDexKey(p.doc))
                  THEN BuildSpeciesDexFrom(Tail(files),
                           DictSet(out, SpeciesDexKey(p.doc),
                                   [path |-> path, data |-> p.doc, leaf |-> f.leaf, arch |-> f.arch]))
                  ELSE BuildSpeciesDexFrom(Tail(files), out)

build_species_dex_dict(files) == BuildSpeciesDexFrom(files, EmptyDict)

\* an inner join instead of the union
MatchKeysInner(spawn, species) == DictKeys(spawn) \cap DictKeys(species)

\* the key set match_dex_numbers iterates
MatchKeys(spawn, species) == DictKeys(spawn) \cup DictKeys(species)

\* one joined 7-tuple: absent sides are None-filled
MatchedTuple(spawn, species, dex) ==
    LET s == IF DictHas(spawn, dex)
             THEN LET e == DictGet(spawn, dex, None)
                  IN  <<Some(e.path), Some(e.blob), Some(e.arch), Some(e.leaf)>>
             ELSE <<None, None, None, None>>
        p == IF DictHas(species, dex)
             THEN LET e == DictGet(species, dex, None)
                  IN  <<Some(e.path), Some(e.data), Some(e.leaf), Some(e.arch)>>
             ELSE <<None, None, None, None>>
    IN  [spawn_path |-> s[1], spawn_bytes |-> s[2], spawn_archive |-> s[3],
         species_path |-> p[1], species_data |-> p[2], species_dir_leaf |-> p[3],
         species_archive |-> p[4]]

\* match_dex_numbers, the keys visited in the order `order` (the iteration
\* order of a Python set, which the language leaves open)
RECURSIVE MatchInOrder(_, _, _, _)
MatchInOrder(spawn, species, order, out) ==
    IF order = <<>> THEN out
    ELSE MatchInOrder(spawn, species, Tail(order),
                      DictSet(out, Head(order), MatchedTuple(spawn, species, Head(order))))

match_dex_numbers(spawn, species, order) == MatchInOrder(spawn, species, order, EmptyDict)

\* the orders in which a set can be iterated
Orders(S) == { o \in [1..Cardinality(S) -> S] : \A i, j \in DOMAIN o : o[i] = o[j] => i = j }

-----------------------------------------------------------------------------
(* data_processing.py                                                      *)

\* The decoded spawn document and its spawn conditions carry their JSON type:
\* an object (with the keys present as a record), a list, null or a number.
JObj(o) == [t |-> "obj", o |-> o]
JList(items) == [t |-> "list", v |-> items]

\* Python truth value of a decoded JSON document
Truthy(x) ==
    CASE x.t = "obj"  -> DOMAIN x.o # {}
      [] x.t = "list" -> x.v # <<>>
      [] x.t = "null" -> FALSE
      [] x.t = "bool" -> x.v
      [] x.t = "int"  -> x.v # 0
      [] x.t = "str"  -> x.v # <<>>

\* whether `sub in s` for two str
Contains(s, sub) ==
    \E i \in 1..(Len(s) - Len(sub) + 1) : SubSeq(s, i, i + Len(sub) - 1) = sub

\* [f(x) for x in xs]
RECURSIVE MapTitleLabels(_)
MapTitleLabels(labels) ==
    IF labels = <<>> THEN <<>>
    ELSE IF StartsWith(Lower(Head(labels)), <<"g","e","n">>)
         THEN MapTitleLabels(Tail(labels))
         ELSE <<Title(Replace(Head(labels), <<"_">>, <<" ">>))>> \o MapTitleLabels(Tail(labels))

\* the human label list: every non-gen label, "_" replaced by " ", title-cased,
\* joined with ", "
MeaningfulLabels(labels) == Join(MapTitleLabels(labels), <<",", " ">>)

\* next((lbl for lbl in labels if str(lbl).lower().startswith("gen")), None)
RECURSIVE FirstGenLabel(_)
FirstGenLabel(labels) ==
    IF labels = <<>> THEN None
    ELSE IF StartsWith(Lower(Head(labels)), <<"g","e","n">>)
         THEN Some(Head(labels))
         ELSE FirstGenLabel(Tail(labels))

\* get_species_data: the first form whose name is a substring of the pokemon
\* name (both lower-cased), else the species JSON itself
RECURSIVE FirstMatchingForm(_, _)
FirstMatchingForm(forms, pokemon_name) ==
    IF forms = <<>> THEN None
    ELSE IF Contains(Lower(pokemon_name), Lower(Get(Head(forms), "name", <<>>)))
         THEN Some(Head(forms))
         ELSE FirstMatchingForm(Tail(forms), pokemon_name)

get_species_data(pokemon_name, species_data) ==
    LET f == FirstMatchingForm(Get(species_data, "forms", <<>>), pokemon_name)
    IN  IF f.some THEN f.val ELSE species_data

\* extract_species_info
extract_species_info(species_data) ==
    LET labels_all == Get(species_data, "labels", <<>>)
        gen_label  == FirstGenLabel(labels_all)
    IN  [name           |-> Get(species_data, "name", <<"U","n","k","n","o","w","n">>),
         primary_type   |-> Get(species_data, "primaryType", <<>>),
         secondary_type |-> Get(species_data, "secondaryType", <<>>),
         egg_groups     |-> Join(Get(species_data, "eggGroups", <<>>), <<",", " ">>),
         generation     |-> IF gen_label.some
                            THEN Capitalize(Replace(gen_label.val, <<"g","e","n">>, <<"G","e","n"," ">>))
                            ELSE <<>>,
         labels         |-> MeaningfulLabels(labels_all)]

\* the blanks process_entry uses when there is no species JSON
BlankSpeciesInfo ==
    [name |-> <<>>, primary_type |-> <<>>, secondary_type |-> <<>>,
     egg_groups |-> <<>>, generation |-> <<>>, labels |-> <<>>]

Unknown == <<"U","n","k","n","o","w","n">>

\* the columns of a merged row that the model carries
RowColumns ==
    {"Dex Number", "Pokemon Name", "Primary Type", "Secondary Type", "Egg Groups",
     "Generation", "Labels", "Weather", "Sky", "Biomes", "Moon Phase", "Anti-Moon Phase",
     "Spawn ID",
     "Species Archive", "Original Spawn Archive", "Original Species Archive"}

\* An exception leaving a function
Raised == [exc |-> TRUE]
Returned(x) == [exc |-> FALSE, val |-> x]

\* str.split(ch)
RECURSIVE Split(_, _)
Split(s, ch) ==
    IF ch \notin Range(s) THEN <<s>>
    ELSE LET i == CHOOSE k \in DOMAIN s : s[k] = ch /\ \A j \in 1..(k - 1) : s[j] # ch
         IN  <<SubSeq(s, 1, i - 1)>> \o Split(SubSeq(s, i + 1, Len(s)), ch)

\* the body of the loop of format_location_names: a name after a namespace
\* loses a leading "is_", a descriptor after "/" loses every "is_", a name
\* without a namespace keeps its "is_"; unpacking the split on "/" raises
\* when there are more than two parts
format_location(location) ==
    IF ":" \in Range(location)
    THEN LET parts == Split(location, ":")
         IN  IF "/" \in Range(parts[2])
             THEN LET halves == Split(parts[2], "/")
                  IN  IF Len(halves) # 2 THEN Raised
                      ELSE Returned(Title(Replace(halves[1], <<"_">>, <<" ">>)) \o <<":", " ">>
                                    \o Title(Replace(Replace(halves[2], <<"i","s","_">>, <<>>), <<"_">>, <<" ">>)))
             ELSE LET name == IF StartsWith(parts[2], <<"i","s","_">>)
                              THEN SubSeq(parts[2], 4, Len(parts[2])) ELSE parts[2]
                  IN  Returned(Title(Strip(Replace(name, <<"_">>, <<" ">>))))
    ELSE Returned(Title(Replace(location, <<"_">>, <<" ">>)))

\* format_location_names over a JSON list of strings
format_location_names(locations) ==
    IF locations.t # "list" \/ \E i \in DOMAIN locations.v : locations.v[i].t # "str" THEN Raised
    ELSE IF \E i \in DOMAIN locations.v : format_location(locations.v[i].v).exc THEN Raised
    ELSE Returned([i \in DOMAIN locations.v |-> format_location(locations.v[i].v).val])

\* get_weather_condition with the rain test ahead of the thunder test
get_weather_condition_rain_first(condition) ==
    IF Truthy(Get(condition, "isRaining", JNull)) THEN <<"R","a","i","n">>
    ELSE IF Truthy(Get(condition, "isThundering", JNull)) THEN <<"T","h","u","n","d","e","r">>
    ELSE IF Get(condition, "isRaining", JNull) = JBool(FALSE) THEN <<"C","l","e","a","r">>
    ELSE <<"A","n","y">>

\* get_weather_condition
get_weather_condition(condition) ==
    IF Truthy(Get(condition, "isThundering", JNull)) THEN <<"T","h","u","n","d","e","r">>
    ELSE IF Truthy(Get(condition, "isRaining", JNull)) THEN <<"R","a","i","n">>
    ELSE IF Get(condition, "isRaining", JNull) = JBool(FALSE) THEN <<"C","l","e","a","r">>
    ELSE <<"A","n","y">>

\* get_sky_condition of the utils module that data_processing imports (the
\* top-level utils.py): canSeeSky of the spawn condition, else of its
\* condition; when it is neither True nor False and the condition has a
\* minSkyLight or maxSkyLight, the range "min - max" with "N/A" for a missing end
get_sky_condition(spawn) ==
    LET condition   == Get(spawn, "condition", JObj([x \in {} |-> <<>>])).o
        can_see_sky == Get(spawn, "canSeeSky", Get(condition, "canSeeSky", JNull))
        min_sky_light == Get(condition, "minSkyLight", JStr(<<"N","/","A">>))
        max_sky_light == Get(condition, "maxSkyLight", JStr(<<"N","/","A">>))
    IN  IF can_see_sky = JBool(TRUE) THEN <<"M","U","S","T"," ","S","E","E">>
        ELSE IF can_see_sky = JBool(FALSE) THEN <<"C","A","N","N","O","T"," ","S","E","E">>
        ELSE IF "minSkyLight" \in DOMAIN condition \/ "maxSkyLight" \in DOMAIN condition
             THEN PyStr(min_sky_light) \o <<" ", "-", " ">> \o PyStr(max_sky_light)
        ELSE <<"A","n","y">>

\* get_moon_phase_name of the utils module that data_processing imports.
\* `from utils import ...` finds the top-level utils.py, main having put its
\* directory first on sys.path.  There an empty or absent value gives "", and
\* any other value reaches `isinstance(moon_phase, list)`, which names a
\* variable that does not exist and raises NameError.
get_moon_phase_name(moon_phases) ==
    IF ~Truthy(moon_phases) THEN Returned(<<>>) ELSE Raised

\* entry.get("pokemon", "").strip()
pokemon_name_of(entry) == Strip(Get(entry.o, "pokemon", JStr(<<>>)).v)

\* build_merged_entry: None for a blank pokemon name, else the row; raises
\* when the spawn condition is not an object, its pokemon is not a str, its
\* condition or anticondition is not an object, or format_location_names or
\* get_moon_phase_name raises
build_merged_entry(dex_number, species_data, entry, spawn_file, species_file, original_spawn_archive, original_species_archive, generation, species_directory) ==
    IF entry.t # "obj" THEN Raised
    ELSE IF Get(entry.o, "pokemon", JStr(<<>>)).t # "str" THEN Raised
    ELSE
    LET pokemon_name    == pokemon_name_of(entry)
        species_or_empty == IF species_data.some THEN species_data.val ELSE [x \in {} |-> <<>>]
        pokemon_species == get_species_data(pokemon_name, species_or_empty)
        condition       == Get(entry.o, "condition", JObj([x \in {} |-> <<>>]))
        anticondition   == Get(entry.o, "anticondition", JObj([x \in {} |-> <<>>]))
        moon_phase      == get_moon_phase_name(Get(condition.o, "moonPhase", JList(<<>>)))
        anti_moon_phase == get_moon_phase_name(Get(anticondition.o, "moonPhase", JList(<<>>)))
        biomes          == format_location_names(Get(condition.o, "biomes", JList(<<>>)))
    IN  IF pokemon_name = <<>> THEN Returned(None)
        ELSE IF condition.t # "obj" \/ anticondition.t # "obj" THEN Raised
        ELSE IF biomes.exc \/ moon_phase.exc \/ anti_moon_phase.exc THEN Raised
        ELSE Returned(Some(
          [c \in RowColumns |->
            CASE c = "Dex Number"     -> <<"#">> \o ZFill(dex_number, 4)
              [] c = "Pokemon Name"   -> Title(pokemon_name)
              [] c = "Primary Type"   -> Title(Get(pokemon_species, "primaryType", <<>>))
              [] c = "Secondary Type" -> Title(Get(pokemon_species, "secondaryType", <<"-","-","-","-","-">>))
              [] c = "Egg Groups"     -> Title(Join(Get(pokemon_species, "eggGroups", <<>>), <<",", " ">>))
              [] c = "Generation"     -> generation
              [] c = "Labels"         -> MeaningfulLabels(Get(species_or_empty, "labels", <<>>))
              [] c = "Weather"        -> get_weather_condition(condition.o)
              [] c = "Sky"            -> get_sky_condition(entry.o)
              [] c = "Biomes"         -> Strip(Join(biomes.val, <<",", " ">>))
              [] c = "Moon Phase"     -> moon_phase.val
              [] c = "Anti-Moon Phase" -> anti_moon_phase.val
              [] c = "Spawn ID"       -> Get(entry.o, "id", Unknown)
              [] c = "Species Archive" ->
                    IF species_directory.some /\ species_directory.val # <<>>
                       /\ species_file.some /\ species_file.val # <<>>
                    THEN species_directory.val \o <<"/">> \o Basename(species_file.val)
                    ELSE Unknown
              [] c = "Original Spawn Archive" ->
                    IF original_spawn_archive.some /\ original_spawn_archive.val # <<>>
                    THEN Basename(original_spawn_archive.val) ELSE Unknown
              [] c = "Original Species Archive" ->
                    IF original_species_archive.some /\ original_species_archive.val # <<>>
                    THEN Basename(original_species_archive.val) ELSE Unknown]))

\* the columns of a skipped entry
SkippedColumns ==
    {"Dex Number", "Pokemon Name", "Primary Type", "Secondary Type", "Egg Groups",
     "Generation", "Labels", "Species Archive"}

\* the default of the writers' batch_size parameter
batch_size == 1000

\* the three shapes process_entry returns: (rows, None), (None, skipped), (None, None)
Result(r, s) == [exc |-> FALSE, r |-> r, s |-> s]
RaisedResult == [exc |-> TRUE, r |-> None, s |-> None]

\* `not species_json`: None or an empty object
SpeciesJsonFalsy(m) == IsNone(m.species_data) \/ DOMAIN m.species_data.val = {}

\* `not spawn_file or not spawn_blob`: None, an empty path or empty bytes
SpawnSideFalsy(m) ==
    \/ IsNone(m.spawn_path) \/ m.spawn_path.val = <<>>
    \/ IsNone(m.spawn_bytes) \/ m.spawn_bytes.val.kind = "empty"

\* the skipped entry with the "#" of the merged rows in its Dex Number
skipped_entry_hashed(dex_number, info, original_species_archive) ==
    [c \in SkippedColumns |->
        CASE c = "Dex Number"      -> Some(<<"#">> \o dex_number)
          [] c = "Pokemon Name"    -> Some(info.name)
          [] c = "Primary Type"    -> Some(info.primary_type)
          [] c = "Secondary Type"  -> Some(info.secondary_type)
          [] c = "Egg Groups"      -> Some(info.egg_groups)
          [] c = "Generation"      -> Some(info.generation)
          [] c = "Labels"          -> Some(info.labels)
          [] c = "Species Archive" -> original_species_archive]

\* the dict process_entry returns for a key without spawn data
skipped_entry(dex_number, info, original_species_archive) ==
    [c \in SkippedColumns |->
        CASE c = "Dex Number"      -> Some(dex_number)
          [] c = "Pokemon Name"    -> Some(info.name)
          [] c = "Primary Type"    -> Some(info.primary_type)
          [] c = "Secondary Type"  -> Some(info.secondary_type)
          [] c = "Egg Groups"      -> Some(info.egg_groups)
          [] c = "Generation"      -> Some(info.generation)
          [] c = "Labels"          -> Some(info.labels)
          [] c = "Species Archive" -> original_species_archive]

\* the loop of process_entry over spawn_data.get("spawns", [])
RECURSIVE MergeSpawns(_, _, _, _, _)
MergeSpawns(dex_number, m, generation, spawns, merged) ==
    IF spawns = <<>> THEN Result(Some(merged), None)
    ELSE LET b == build_merged_entry(dex_number, m.species_data, Head(spawns),
                      m.spawn_path, m.species_path, m.spawn_archive, m.species_archive,
                      generation, m.species_dir_leaf)
         IN  IF b.exc THEN RaisedResult
             ELSE MergeSpawns(dex_number, m, generation, Tail(spawns),
                              IF b.val.some THEN Append(merged, b.val.val) ELSE merged)

\* process_entry with the parse failure of the spawn bytes left uncaught
process_entry_parse_raises(dex_number, matched_dex_dict) ==
    LET m    == DictGet(matched_dex_dict, dex_number, None)
        info == IF SpeciesJsonFalsy(m) THEN BlankSpeciesInfo
                ELSE extract_species_info(m.species_data.val)
    IN  IF SpawnSideFalsy(m)
        THEN Result(None, Some(skipped_entry(dex_number, info, m.species_archive)))
        ELSE LET p == Loads(m.spawn_bytes.val)
             IN  IF ~p.ok THEN RaisedResult
                 ELSE LET spawn_data == IF Truthy(p.doc) THEN p.doc
                                        ELSE JObj([spawns |-> <<>>])
                      IN  IF spawn_data.t # "obj" THEN RaisedResult
                          ELSE MergeSpawns(dex_number, m, info.generation,
                                           Get(spawn_data.o, "spawns", <<>>), <<>>)

\* process_entry
process_entry(dex_number, matched_dex_dict) ==
    LET m    == DictGet(matched_dex_dict, dex_number, None)
        info == IF SpeciesJsonFalsy(m) THEN BlankSpeciesInfo
                ELSE extract_species_info(m.species_data.val)
    IN  IF SpawnSideFalsy(m)
        THEN Result(None, Some(skipped_entry(dex_number, info, m.species_archive)))
        ELSE LET p == Loads(m.spawn_bytes.val)
             IN  IF ~p.ok THEN Result(None, None)
                 ELSE LET spawn_data == IF Truthy(p.doc) THEN p.doc
                                        ELSE JObj([spawns |-> <<>>])
                      IN  IF spawn_data.t # "obj" THEN RaisedResult
                          ELSE MergeSpawns(dex_number, m, info.generation,
                                           Get(spawn_data.o, "spawns", <<>>), <<>>)

-----------------------------------------------------------------------------
(* The inputs: archive entries as the scanner hands them on                *)

COBBLEMON_ROOT == <<"data", "/", "cobblemon">>
SpawnPrefix    == COBBLEMON_ROOT \o <<"/", "spawn_pool_world">>
SpeciesPrefix  == COBBLEMON_ROOT \o <<"/", "species">>
AdditionPrefix == COBBLEMON_ROOT \o <<"/", "species", "_addition">>
INCLUDE_DIRS   == <<SpawnPrefix, SpeciesPrefix, AdditionPrefix>>

\* os.path.dirname(path).split("/")[-1] if "/" in path else ""
DirLeaf(path) ==
    IF "/" \in Range(path) THEN Basename(Dirname(path)) ELSE <<>>

\* the value _extract_from_archive stores for a path
FileTuple(path, blob, arch) == [blob |-> blob, arch |-> arch, leaf |-> DirLeaf(path)]

ArchA == <<"A", ".", "z", "i", "p">>
ArchB == <<"B", ".", "j", "a", "r">>

SpawnFile(name, blob, arch) ==
    LET path == SpawnPrefix \o <<"/">> \o name
    IN  [k |-> path, v |-> FileTuple(path, blob, arch)]

SpeciesFile(name, blob, arch) ==
    LET path == SpeciesPrefix \o <<"/", "generation1", "/">> \o name
    IN  [k |-> path, v |-> FileTuple(path, blob, arch)]

\* spawn conditions
Cond(pokemon, id) == JObj([pokemon |-> JStr(pokemon), id |-> id])

\* spawn documents
DocPika ==
    JObj([spawns |-> <<Cond(<<"p","i","k","a">>, <<"p","1">>),
                       Cond(<<"p","i","k","a"," ","a","l","o">>, <<"p","2">>)>>])
DocBlankThenRai ==
    JObj([spawns |-> <<Cond(<<" ">>, <<"b","1">>),
                       JObj([id |-> <<"b","2">>]),
                       Cond(<<"r","a","i">>, <<"r","1">>)>>])
DocEmptyObj   == JObj([x \in {} |-> <<>>])
DocList       == JList(<<JInt(1)>>)
DocStrCond    == JObj([spawns |-> <<Cond(<<"r","a","i">>, <<"r","1">>), JStr(<<"r","a","i">>)>>])
DocMoon       ==
    JObj([spawns |-> <<JObj([pokemon |-> JStr(<<"m","i","s">>), id |-> <<"m","1">>,
                             condition |-> JObj([moonPhase |-> JList(<<JInt(0), JInt(4)>>)])])>>])

\* the spawn files a run may meet
SpawnCandidates ==
    { SpawnFile(<<"0","0","2","5","_","p","i","k","a",".json">>, JsonBytes(DocPika), ArchA),
      SpawnFile(<<"2","5","_","p","i","k","a",".json">>, JsonBytes(DocBlankThenRai), ArchB),
      SpawnFile(<<"0","0","2","6","_","r","a","i",".json">>, EmptyBytes, ArchA),
      SpawnFile(<<"2","6","_","r","a","i",".json">>, BadBytes, ArchB),
      SpawnFile(<<"0","0","0","2","6","_","r","a","i",".json">>, JsonBytes(DocList), ArchB),
      SpawnFile(<<"0","0","0","0","_","m","i","s",".json">>, JsonBytes(DocEmptyObj), ArchA),
      SpawnFile(<<"0","0","0","_","m","i","s",".json">>, JsonBytes(DocStrCond), ArchA),
      SpawnFile(<<"0","_","m","i","s",".json">>, JsonBytes(DocMoon), ArchB) }

\* species documents
SpeciesPika ==
    [nationalPokedexNumber |-> JInt(25), name |-> <<"P","i","k","a">>,
     primaryType |-> <<"e","l","e","c">>,
     labels |-> <<<<"g","e","n","1">>, <<"k","_","r">>>>,
     forms |-> <<[name |-> <<"A","l","o">>, primaryType |-> <<"p","s","y">>,
                  secondaryType |-> <<"i","c","e">>]>>]
SpeciesRai ==
    [nationalPokedexNumber |-> JInt(26), name |-> <<"R","a","i">>,
     primaryType |-> <<"e","l","e","c">>, secondaryType |-> <<"p","s","y">>,
     eggGroups |-> <<<<"f","l","d">>, <<"f","a","e">>>>]
SpeciesNoNumber   == [name |-> <<"M","i","s">>, primaryType |-> <<"b","u","g">>]
SpeciesNullNumber == [nationalPokedexNumber |-> JNull, name |-> <<"N","u","l">>]
SpeciesEmpty      == [x \in {} |-> <<>>]

\* the species files a run may meet
SpeciesCandidates ==
    { SpeciesFile(<<"p","i","k","a",".json">>, JsonBytes(SpeciesPika), ArchA),
      SpeciesFile(<<"r","a","i",".json">>, JsonBytes(SpeciesRai), ArchB),
      SpeciesFile(<<"m","i","s",".json">>, JsonBytes(SpeciesNoNumber), ArchA),
      SpeciesFile(<<"n","u","l",".json">>, JsonBytes(SpeciesNullNumber), ArchB),
      SpeciesFile(<<"e","m","p",".json">>, JsonBytes(SpeciesEmpty), ArchB),
      SpeciesFile(<<"b","a","d",".json">>, BadBytes, ArchA) }

\* how many spawn and species files, all told, the scanner found
MaxFiles == 3

\* the dicts of at most n entries drawn from a set of candidate entries, in
\* every insertion order
DictsFrom(C, n) ==
    UNION { { d \in [1..m -> C] : IsDict(d) } : m \in 0..n }

\* main.py before the first stage runs: nothing indexed, merged or written
RunIdle ==
    /\ spawn_dex = EmptyDict /\ species_dex = EmptyDict /\ matched = EmptyDict
    /\ entry_key = None /\ entry_result = None /\ batch_arg = batch_size
    /\ task = EmptyDict /\ sem = 0 /\ normal_results = EmptyDict
    /\ rows = <<>> /\ skipped = <<>> /\ addition_rows = <<>>
    /\ rows_sorted = <<>> /\ skipped_sorted = <<>> /\ additions_sorted = <<>>
    /\ written = EmptyDict

\* no archive scan in this specification: the files are given
ScanIdle ==
    /\ dir_exists = TRUE
    /\ archives = <<>> /\ fut = <<>> /\ fut_res = <<>> /\ all_files = EmptyDict

-----------------------------------------------------------------------------
(* The indexing stage of main, and process_entry called on a key           *)

\* spawn_dex = build_spawn_dex_dict(result.spawn_files)
BuildSpawnDex ==
    /\ pc = "index_spawn"
    /\ spawn_dex' = build_spawn_dex_dict(spawn_files)
    /\ pc' = "index_species"
    /\ UNCHANGED <<scanVars, fileVars, species_dex, matched, entryVars, runVars>>

\* species_dex = build_species_dex_dict(result.species_files)
BuildSpeciesDex ==
    /\ pc = "index_species"
    /\ species_dex' = build_species_dex_dict(species_files)
    /\ pc' = "match"
    /\ UNCHANGED <<scanVars, fileVars, spawn_dex, matched, entryVars, runVars>>

\* matched = match_dex_numbers(spawn_dex, species_dex)
MatchDex ==
    /\ pc = "match"
    /\ \E order \in Orders(MatchKeys(spawn_dex, species_dex)) :
           matched' = match_dex_numbers(spawn_dex, species_dex, order)
    /\ pc' = "merge"
    /\ UNCHANGED <<scanVars, fileVars, spawn_dex, species_dex, entryVars, runVars>>

\* await process_entry(dex, matched), for any key of matched
CallProcessEntry ==
    /\ pc = "merge"
    /\ \E dex \in DictKeys(matched) :
           /\ entry_key' = Some(dex)
           /\ entry_result' = Some(process_entry(dex, matched))
    /\ UNCHANGED <<scanVars, fileVars, indexVars, runVars, batch_arg, pc>>

InitIndex ==
    /\ ScanIdle /\ RunIdle
    /\ mode = "default"
    /\ \E n \in 0..MaxFiles :
           /\ spawn_files \in DictsFrom(SpawnCandidates, n)
           /\ species_files \in DictsFrom(SpeciesCandidates, MaxFiles - n)
    /\ species_addition_files = EmptyDict
    /\ pc = "index_spawn"

NextIndex == BuildSpawnDex \/ BuildSpeciesDex \/ MatchDex \/ CallProcessEntry

SpecIndex == InitIndex /\ [][NextIndex]_vars

-----------------------------------------------------------------------------
(* One spawn file and one species file for every dex number                *)

MaxDex == 9999
MaxLeadingZeros == 3

\* z times "0"
Zeros(z) == [i \in 1..z |-> "0"]

InitDex ==
    /\ ScanIdle /\ RunIdle
    /\ mode = "default"
    /\ \E n \in 0..MaxDex, z \in 0..MaxLeadingZeros :
           /\ spawn_files =
                  <<SpawnFile(Zeros(z) \o NatToStr(n) \o <<"_","p","i","k","a",".json">>,
                              JsonBytes(DocPika), ArchA)>>
           /\ species_files =
                  <<SpeciesFile(<<"p","i","k","a",".json">>,
                                JsonBytes([nationalPokedexNumber |-> JInt(n),
                                           name |-> <<"P","i","k","a">>]), ArchB)>>
    /\ species_addition_files = EmptyDict
    /\ pc = "index_spawn"

SpecDex == InitDex /\ [][NextIndex]_vars

-----------------------------------------------------------------------------
(* Properties of the indexer, the matcher and process_entry                *)

Indexed == pc \in {"match", "merge"}

\* the decimal of n in exactly four digits, digit by digit
Pad4(n) ==
    <<DigitChars[((n \div 1000) % 10) + 1], DigitChars[((n \div 100) % 10) + 1],
      DigitChars[((n \div 10) % 10) + 1], DigitChars[(n % 10) + 1]>>

\* the nationalPokedexNumber of the one species file of SpecDex
DexOfRun == species_files[1].v.blob.doc.nationalPokedexNumber.v

\* C1: for every n in 0..9999 the species JSON with nationalPokedexNumber n is
\* stored under n zero-padded to 4 digits, the spawn file whose leading token is
\* n with any number of leading zeros is stored under the same key, and the
\* matcher's entry for that key has both sides non-null.
C1_SpawnAndSpeciesMeetAtPaddedKey ==
    LET key == Pad4(DexOfRun)
    IN  DexOfRun <= 9999 =>
          /\ pc \in {"index_species", "match", "merge"} =>
                /\ DictHas(spawn_dex, key)
                /\ DictGet(spawn_dex, key, None).path = spawn_files[1].k
          /\ Indexed =>
                /\ DictHas(species_dex, key)
                /\ DictGet(species_dex, key, None).data = species_files[1].v.blob.doc
          /\ pc = "merge" =>
                /\ DictHas(matched, key)
                /\ LET m == DictGet(matched, key, None)
                   IN  /\ m.spawn_path = Some(spawn_files[1].k)
                       /\ m.spawn_bytes.some /\ m.spawn_archive.some
                       /\ m.species_path = Some(species_files[1].k)
                       /\ m.species_data.some /\ m.species_archive.some

\* number 25 written "0025" in the filename, joined with species 25 at "0025"
C1_Witness ==
    /\ pc = "merge"
    /\ DexOfRun = 25
    /\ StartsWith(Basename(spawn_files[1].k), <<"0","0","2","5","_">>)
    /\ DictHas(matched, <<"0","0","2","5">>)
    /\ DictGet(matched, <<"0","0","2","5">>, None).spawn_path.some
    /\ DictGet(matched, <<"0","0","2","5">>, None).species_path.some

\* whether a parsed species JSON has a numeric nationalPokedexNumber
HasNumericDex(data) ==
    /\ "nationalPokedexNumber" \in DOMAIN data
    /\ data.nationalPokedexNumber.t = "int"

\* C2: a species entry whose parsed JSON has no numeric nationalPokedexNumber
\* (field missing, or null) is stored under no key of the species index.
C2_SpeciesWithoutNumberNotIndexed ==
    Indexed =>
        \A i \in DOMAIN species_files :
            LET p == Loads(species_files[i].v.blob)
            IN  (p.ok /\ ~HasNumericDex(p.doc)) =>
                    \A j \in DOMAIN species_dex : species_dex[j].v.path # species_files[i].k

\* C3: the matcher's key set is the union of the two key sets, each key once;
\* per key the spawn fields are those of the spawn index entry or all null, the
\* species fields those of the species index entry or all null, and one of the
\* two sides is non-null.
C3_MatchIsFullOuterJoin ==
    pc = "merge" =>
        /\ IsDict(matched)
        /\ DictKeys(matched) = DictKeys(spawn_dex) \cup DictKeys(species_dex)
        /\ \A i \in DOMAIN matched :
              LET dex == matched[i].k
                  m   == matched[i].v
              IN  /\ (\E a \in DOMAIN spawn_dex : spawn_dex[a].k = dex) =>
                        \E a \in DOMAIN spawn_dex :
                            /\ spawn_dex[a].k = dex
                            /\ m.spawn_path = Some(spawn_dex[a].v.path)
                            /\ m.spawn_bytes = Some(spawn_dex[a].v.blob)
                            /\ m.spawn_archive = Some(spawn_dex[a].v.arch)
                  /\ (\A a \in DOMAIN spawn_dex : spawn_dex[a].k # dex) =>
                        /\ m.spawn_path = None /\ m.spawn_bytes = None
                        /\ m.spawn_archive = None
                  /\ (\E b \in DOMAIN species_dex : species_dex[b].k = dex) =>
                        \E b \in DOMAIN species_dex :
                            /\ species_dex[b].k = dex
                            /\ m.species_path = Some(species_dex[b].v.path)
                            /\ m.species_data = Some(species_dex[b].v.data)
                            /\ m.species_dir_leaf = Some(species_dex[b].v.leaf)
                            /\ m.species_archive = Some(species_dex[b].v.arch)
                  /\ (\A b \in DOMAIN species_dex : species_dex[b].k # dex) =>
                        /\ m.species_path = None /\ m.species_data = None
                        /\ m.species_dir_leaf = None /\ m.species_archive = None
                  /\ (m.spawn_path.some \/ m.species_path.some)

\* a join with one key found on both sides and one found only in the species index
C3_Witness ==
    /\ pc = "merge"
    /\ \E i \in DOMAIN matched : matched[i].v.spawn_path.some /\ matched[i].v.species_path.some
    /\ \E i \in DOMAIN matched : IsNone(matched[i].v.spawn_path) /\ matched[i].v.species_path.some

\* the MatchedEntry process_entry was last called on, and what it returned
CalledEntry == DictGet(matched, entry_key.val, None)
CalledResult == entry_result.val

\* C4: process_entry returns rows only if the spawn side is non-null, returns a
\* SkippedEntry only if the spawn side is null (a spawn entry that is in the
\* index, even with empty content, never yields one), and never returns both.
C4_SkippedOnlyWhenSpawnSideNull ==
    entry_key.some =>
        /\ CalledResult.r.some => CalledEntry.spawn_path.some
        /\ CalledResult.s.some => IsNone(CalledEntry.spawn_path)
        /\ ~(CalledResult.r.some /\ CalledResult.s.some)

\* every column of a skipped entry but the Dex Number, as the species JSON gives it
SummaryColumnsFrom(sk, data, archive) ==
    /\ sk["Pokemon Name"] = Some(Get(data, "name", IF DOMAIN data = {} THEN <<>> ELSE Unknown))
    /\ sk["Primary Type"] = Some(Get(data, "primaryType", <<>>))
    /\ sk["Secondary Type"] = Some(Get(data, "secondaryType", <<>>))
    /\ sk["Egg Groups"] = Some(Join(Get(data, "eggGroups", <<>>), <<",", " ">>))
    /\ sk["Labels"] = Some(MeaningfulLabels(Get(data, "labels", <<>>)))
    /\ sk["Species Archive"] = Some(archive)

\* C5: a key with species data and no spawn entry gets exactly one SkippedEntry,
\* its Dex Number the 4-digit key with no leading "#", its other fields the
\* species-derived summary fields, and no MergedRow.
C5_SpeciesOnlyKeyIsSkippedOnce ==
    (entry_key.some /\ CalledEntry.species_path.some /\ IsNone(CalledEntry.spawn_path)) =>
        /\ ~CalledResult.exc
        /\ IsNone(CalledResult.r)
        /\ CalledResult.s.some
        /\ LET sk == CalledResult.s.val
           IN  /\ sk["Dex Number"] = Some(entry_key.val)
               /\ Len(entry_key.val) = 4
               /\ Head(sk["Dex Number"].val) # "#"
               /\ SummaryColumnsFrom(sk, CalledEntry.species_data.val,
                                     CalledEntry.species_archive.val)
               /\ (entry_key.val = <<"0","0","2","6">>
                   /\ CalledEntry.species_data.val = SpeciesRai) =>
                      /\ sk["Pokemon Name"] = Some(<<"R","a","i">>)
                      /\ sk["Primary Type"] = Some(<<"e","l","e","c">>)
                      /\ sk["Secondary Type"] = Some(<<"p","s","y">>)
                      /\ sk["Egg Groups"] = Some(<<"f","l","d",","," ","f","a","e">>)
                      /\ sk["Generation"] = Some(<<>>)
                      /\ sk["Labels"] = Some(<<>>)
               /\ (CalledEntry.species_data.val = SpeciesPika) =>
                      /\ sk["Generation"] = Some(<<"G","e","n"," ","1">>)
                      /\ sk["Labels"] = Some(<<"K"," ","R">>)

\* species "0026" indexed, no spawn file for it, process_entry called on it
C5_Witness ==
    /\ entry_key = Some(<<"0","0","2","6">>)
    /\ CalledEntry.species_data = Some(SpeciesRai)
    /\ IsNone(CalledEntry.spawn_path)
    /\ CalledResult.s.some

\* a str of blanks only
IsBlank(s) == \A i \in DOMAIN s : s[i] = " "

\* a spawn condition object with a non-blank pokemon name
IsNamedCond(e) == "pokemon" \in DOMAIN e.o /\ ~IsBlank(e.o.pokemon.v)

\* a spawn document of the shape the merger is written for: an object whose
\* "spawns", when present, lists objects whose "pokemon", when present, is a
\* str and whose "condition" and "anticondition", when present, are objects
IsSpawnSchema(doc) ==
    /\ doc.t = "obj"
    /\ \A i \in DOMAIN Get(doc.o, "spawns", <<>>) :
          LET e == doc.o.spawns[i]
          IN  /\ e.t = "obj"
              /\ "pokemon" \in DOMAIN e.o => e.o.pokemon.t = "str"
              /\ "condition" \in DOMAIN e.o => e.o.condition.t = "obj"
              /\ "anticondition" \in DOMAIN e.o => e.o.anticondition.t = "obj"

\* C6: for a MatchedEntry whose spawn JSON parses, process_entry returns one
\* MergedRow per spawn condition with a non-blank pokemon name, in source
\* order, each with Dex Number "#" + the 4-digit key.
C6_OneRowPerNamedSpawnCondition ==
    (/\ entry_key.some
     /\ CalledEntry.spawn_bytes.some
     /\ CalledEntry.spawn_bytes.val.kind = "json"
     /\ IsSpawnSchema(CalledEntry.spawn_bytes.val.doc)) =>
        LET conds == Get(CalledEntry.spawn_bytes.val.doc.o, "spawns", <<>>)
            named == SelectSeq(conds, IsNamedCond)
        IN  /\ ~CalledResult.exc
            /\ IsNone(CalledResult.s)
            /\ CalledResult.r.some
            /\ Len(CalledResult.r.val) = Len(named)
            /\ \A i \in DOMAIN named :
                  LET row == CalledResult.r.val[i]
                  IN  /\ row["Spawn ID"] = named[i].o.id
                      /\ row["Dex Number"] = <<"#">> \o entry_key.val
                      /\ Len(row["Dex Number"]) = 5
                      /\ \A j \in 2..5 : IsDigit(row["Dex Number"][j])

-----------------------------------------------------------------------------
(* archive_extraction.py                                                   *)

\* the mutant of _is_target_json that forgets the extension
IsTargetJsonAnyExtension(path) ==
    \E i \in DOMAIN INCLUDE_DIRS : StartsWith(path, INCLUDE_DIRS[i])

\* _is_target_json
IsTargetJson(path) ==
    /\ EndsWith(path, <<".json">>)
    /\ \E i \in DOMAIN INCLUDE_DIRS : StartsWith(path, INCLUDE_DIRS[i])

\* _categorize_key with the species test ahead of the species_addition test
CategorizeKeySpeciesFirst(path) ==
    IF StartsWith(path, SpawnPrefix) THEN "spawn"
    ELSE IF StartsWith(path, SpeciesPrefix) THEN "species"
    ELSE IF StartsWith(path, AdditionPrefix) THEN "species_addition"
    ELSE "none"

\* _categorize_key
CategorizeKey(path) ==
    IF StartsWith(path, SpawnPrefix) THEN "spawn"
    ELSE IF StartsWith(path, AdditionPrefix) THEN "species_addition"
    ELSE IF StartsWith(path, SpeciesPrefix) THEN "species"
    ELSE "none"

\* the test of _archive_iter: name.lower().endswith((".zip", ".jar"))
IsArchiveName(name) ==
    \/ EndsWith(Lower(name), <<".", "z", "i", "p">>)
    \/ EndsWith(Lower(name), <<".", "j", "a", "r">>)

ArchivesDir == <<"a", "r", "c", "h", "i", "v", "e", "s">>

\* os.path.join(archives_dir, name)
ArchivePath(name) == ArchivesDir \o <<"/">> \o name

\* the loop of _extract_from_archive over zf.infolist(): an entry that is no
\* target is passed over, one that cannot be read is logged and passed over
RECURSIVE ReadEntries(_, _, _)
ReadEntries(infolist, archive_basename, results) ==
    IF infolist = <<>> THEN results
    ELSE LET info == Head(infolist)
         IN  IF IsTargetJson(info.path) /\ info.readable
             THEN ReadEntries(Tail(infolist), archive_basename,
                      DictSet(results, info.path,
                              FileTuple(info.path, info.blob, archive_basename)))
             ELSE ReadEntries(Tail(infolist), archive_basename, results)

\* a worker that lets the failure to open an archive escape
ExtractFromArchiveUncaught(file) ==
    IF ~file.opens THEN Raised
    ELSE Returned(ReadEntries(file.entries, Basename(ArchivePath(file.name)), EmptyDict))

\* _extract_from_archive: an archive that cannot be opened gives the empty
\* dict; no exception leaves the function
ExtractFromArchive(file) ==
    IF ~file.opens THEN Returned(EmptyDict)
    ELSE Returned(ReadEntries(file.entries, Basename(ArchivePath(file.name)), EmptyDict))

\* the sub-map of all_files of one category
RECURSIVE SubMap(_, _)
SubMap(files, cat) ==
    IF files = <<>> THEN EmptyDict
    ELSE IF CategorizeKey(Head(files).k) = cat
         THEN <<Head(files)>> \o SubMap(Tail(files), cat)
         ELSE SubMap(Tail(files), cat)

\* worker threads of the pool
MaxWorkers == 2

Running == { i \in DOMAIN fut : fut[i] = "running" }
Queued == { i \in DOMAIN fut : fut[i] = "queued" }

\* _archive_iter that takes a missing directory for an empty one
archive_iter_missing_is_empty(exists, listing) ==
    Returned({ i \in DOMAIN listing : exists /\ IsArchiveName(listing[i].name) })

\* _archive_iter: FileNotFoundError when the directory does not exist, else
\* the files of the listing whose name ends in .zip or .jar
archive_iter(exists, listing) ==
    IF ~exists THEN Raised
    ELSE Returned({ i \in DOMAIN listing : IsArchiveName(listing[i].name) })

\* futures = {executor.submit(_extract_from_archive, ap): ap for ap in _archive_iter(dir)}
\* The exception of _archive_iter leaves extract_archives_in_memory and main.
SubmitArchives ==
    /\ pc = "scan"
    /\ LET found == archive_iter(dir_exists, archives)
       IN  IF found.exc
           THEN /\ pc' = "aborted"
                /\ UNCHANGED <<fut, fut_res>>
           ELSE /\ fut' = [i \in DOMAIN archives |->
                              IF i \in found.val THEN "queued" ELSE "no_archive"]
                /\ fut_res' = [i \in DOMAIN archives |-> Returned(EmptyDict)]
                /\ pc' = "as_completed"
    /\ UNCHANGED <<dir_exists, archives, all_files, fileVars, indexVars, entryVars, runVars>>

\* an idle worker takes the oldest queued work item
WorkerStart(i) ==
    /\ pc = "as_completed"
    /\ fut[i] = "queued"
    /\ \A j \in Queued : i <= j
    /\ Cardinality(Running) < MaxWorkers
    /\ fut' = [fut EXCEPT ![i] = "running"]
    /\ UNCHANGED <<dir_exists, archives, fut_res, all_files, fileVars, indexVars, entryVars, runVars, pc>>

\* the worker runs _extract_from_archive to its end
WorkerFinish(i) ==
    /\ pc = "as_completed"
    /\ fut[i] = "running"
    /\ fut_res' = [fut_res EXCEPT ![i] = ExtractFromArchive(archives[i])]
    /\ fut' = [fut EXCEPT ![i] = "finished"]
    /\ UNCHANGED <<dir_exists, archives, all_files, fileVars, indexVars, entryVars, runVars, pc>>

\* for fut in as_completed(futures): res = fut.result(); all_files.update(res)
Collect(i) ==
    /\ pc = "as_completed"
    /\ fut[i] = "finished"
    /\ fut' = [fut EXCEPT ![i] = "collected"]
    /\ IF fut_res[i].exc
       THEN pc' = "aborted" /\ UNCHANGED all_files
       ELSE all_files' = DictUpdate(all_files, fut_res[i].val) /\ UNCHANGED pc
    /\ UNCHANGED <<dir_exists, archives, fut_res, fileVars, indexVars, entryVars, runVars>>

\* the three sub-maps, and the return of extract_archives_in_memory
Categorize ==
    /\ pc = "as_completed"
    /\ \A i \in DOMAIN fut : fut[i] \in {"collected", "no_archive"}
    /\ spawn_files' = SubMap(all_files, "spawn")
    /\ species_files' = SubMap(all_files, "species")
    /\ species_addition_files' = SubMap(all_files, "species_addition")
    /\ pc' = "extracted"
    /\ UNCHANGED <<scanVars, indexVars, entryVars, runVars>>

\* entries of an archive, as zf.infolist() gives them
Info(path, blob, readable) == [path |-> path, blob |-> blob, readable |-> readable]

PathPika == SpawnPrefix \o <<"/", "0","0","2","5","_","p","i","k","a",".json">>
PathRai  == SpawnPrefix \o <<"/", "0","0","2","6","_","r","a","i",".json">>
PathSpeciesPika == SpeciesPrefix \o <<"/", "generation1", "/", "p","i","k","a",".json">>
PathSpeciesRai  == SpeciesPrefix \o <<"/", "generation1", "/", "r","a","i",".json">>
PathAddition    == AdditionPrefix \o <<"/", "m","i","s",".json">>

\* what an archive directory may hold: name and entries; whether the file
\* opens as a zip is drawn separately
DirCandidates ==
    { [name |-> ArchA,
       entries |-> <<Info(PathPika, JsonBytes(DocPika), TRUE),
                     Info(<<"assets", "/", "x", ".json">>, JsonBytes(DocEmptyObj), TRUE),
                     Info(SpawnPrefix \o <<"/", "r","e","a","d","m","e",".txt">>, BadBytes, TRUE),
                     Info(PathSpeciesPika, JsonBytes(SpeciesPika), TRUE)>>],
      [name |-> ArchB,
       entries |-> <<Info(PathRai, JsonBytes(DocBlankThenRai), TRUE),
                     Info(PathSpeciesRai, JsonBytes(SpeciesRai), TRUE)>>],
      [name |-> <<"C", ".", "Z", "I", "P">>,
       entries |-> <<Info(PathPika, JsonBytes(DocBlankThenRai), TRUE),
                     Info(PathSpeciesRai, JsonBytes(SpeciesRai), FALSE),
                     Info(PathAddition, JsonBytes(JObj(SpeciesNoNumber)), TRUE),
                     Info(COBBLEMON_ROOT \o <<"/", "l","a","n","g", "/", "e","n",".json">>,
                          JsonBytes(DocEmptyObj), TRUE)>>],
      [name |-> <<"n","o","t","e","s",".","t","x","t">>, entries |-> <<>>] }

MaxArchives == 3

\* the listings of at most n files with distinct names
Listings(n) ==
    UNION { { l \in [1..m -> DirCandidates] : \A i, j \in 1..m : l[i] = l[j] => i = j }
            : m \in 0..n }

InitScan ==
    /\ RunIdle
    /\ mode = "default"
    /\ dir_exists = TRUE
    /\ \E l \in Listings(MaxArchives) :
       \E opens \in [DOMAIN l -> BOOLEAN] :
           archives = [i \in DOMAIN l |->
                          [name |-> l[i].name, entries |-> l[i].entries,
                           opens |-> opens[i] /\ IsArchiveName(l[i].name)]]
    /\ fut = <<>> /\ fut_res = <<>> /\ all_files = EmptyDict
    /\ spawn_files = EmptyDict /\ species_files = EmptyDict
    /\ species_addition_files = EmptyDict
    /\ pc = "scan"

NextScan ==
    \/ SubmitArchives
    \/ \E i \in DOMAIN fut : WorkerStart(i) \/ WorkerFinish(i) \/ Collect(i)
    \/ Categorize

SpecScan == InitScan /\ [][NextScan]_vars

-----------------------------------------------------------------------------
(* Properties of the scanner                                               *)

\* a path that ends in ".json" and starts with one of the three prefixes
IsTargetPath(path) ==
    /\ path # <<>>
    /\ path[Len(path)] = ".json"
    /\ \E prefix \in {SpawnPrefix, SpeciesPrefix, AdditionPrefix} :
          /\ Len(path) >= Len(prefix)
          /\ \A i \in 1..Len(prefix) : path[i] = prefix[i]

\* every path of a dict is such a path
OnlyTargets(d) == \A i \in DOMAIN d : IsTargetPath(d[i].k)

\* C9: every entry of the scanner's output map has a path that ends in ".json"
\* and starts with one of the three configured prefixes, whatever archives
\* were scanned.
C9_OutputHoldsOnlyTargetJson ==
    /\ OnlyTargets(all_files)
    /\ OnlyTargets(spawn_files)
    /\ OnlyTargets(species_files)
    /\ OnlyTargets(species_addition_files)

\* a scan that returned entries from an archive that also held a .txt under a
\* prefix and a .json outside the prefixes
C9_Witness ==
    /\ pc = "extracted"
    /\ all_files # EmptyDict
    /\ \E i \in DOMAIN archives :
          /\ archives[i].opens
          /\ \E e \in DOMAIN archives[i].entries :
                /\ StartsWith(archives[i].entries[e].path, SpawnPrefix)
                /\ ~EndsWith(archives[i].entries[e].path, <<".json">>)
          /\ \E e \in DOMAIN archives[i].entries :
                /\ EndsWith(archives[i].entries[e].path, <<".json">>)
                /\ ~StartsWith(archives[i].entries[e].path, COBBLEMON_ROOT)

\* an archive file of the directory that does not open as a zip
IsCorrupt(file) == IsArchiveName(file.name) /\ ~file.opens

\* C10: a corrupt archive does not abort the scan: in every completion order
\* the scan goes on to return, the corrupt archive contributes no entry and
\* every (readable) target entry of every other archive is in the output map.
C10_CorruptArchiveDoesNotAbortScan ==
    /\ pc # "aborted"
    /\ (pc = "extracted" \/ ENABLED NextScan)
    /\ pc = "extracted" =>
          \A i \in DOMAIN archives :
              /\ IsCorrupt(archives[i]) =>
                    \A j \in DOMAIN all_files : all_files[j].v.arch # archives[i].name
              /\ archives[i].opens =>
                    \A e \in DOMAIN archives[i].entries :
                        LET info == archives[i].entries[e]
                        IN  (info.readable /\ IsTargetPath(info.path)) =>
                                DictHas(all_files, info.path)

\* a scan that returned with a corrupt archive holding entries in the directory
\* and the entries of another archive in the output map
C10_Witness ==
    /\ pc = "extracted"
    /\ \E i \in DOMAIN archives : IsCorrupt(archives[i]) /\ archives[i].entries # <<>>
    /\ \E i \in DOMAIN archives :
          /\ archives[i].opens
          /\ \E j \in DOMAIN all_files : all_files[j].v.arch = archives[i].name

-----------------------------------------------------------------------------
(* species_addition_handler.py                                             *)

\* os.path.splitext(base)[0]: the name without its extension atom
SplitExtRoot(base) ==
    IF base # <<>> /\ base[Len(base)] = ".json" THEN SubSeq(base, 1, Len(base) - 1)
    ELSE base

\* s with the leading run of atoms of a set removed
RECURSIVE LStripSet(_, _)
LStripSet(s, chars) ==
    IF s # <<>> /\ Head(s) \in chars THEN LStripSet(Tail(s), chars) ELSE s

\* re.sub(r"^\d+[_-]*", "", base): at least one digit, then any "_" or "-"
StripDexPrefix(base) ==
    IF base # <<>> /\ IsDigit(Head(base))
    THEN LStripSet(LStripSet(base, Range(DigitChars)), {"_", "-"})
    ELSE base

\* _name_from_spawn_filename
name_from_spawn_filename(spawn_path) ==
    Strip(Lower(StripDexPrefix(SplitExtRoot(Basename(spawn_path)))))

\* data.setdefault("forms", []); data.setdefault("labels", [])
WithFormsAndLabels(data) ==
    [k \in DOMAIN data \cup {"forms", "labels"} |->
        IF k \in DOMAIN data THEN data[k] ELSE <<>>]

\* the normalized name an addition record is stored under
AdditionName(data) ==
    LET first       == Get(data, "target_id", <<>>)
        target_id   == IF first # <<>> THEN first ELSE Get(data, "targetId", <<>>)
        name_from_id == IF ":" \in Range(target_id)
                        THEN SubSeq(target_id, LastIndexOf(target_id, ":") + 1, Len(target_id))
                        ELSE target_id
    IN  Lower(Strip(IF name_from_id # <<>> THEN name_from_id
                    ELSE Get(data, "name", <<>>)))

\* the loop of parse_species_additions; a document that is not an object has
\* no .get and raises
RECURSIVE ParseAdditionsFrom(_, _)
ParseAdditionsFrom(files, out) ==
    IF files = <<>> THEN Returned(out)
    ELSE LET p == Loads(Head(files).v.blob)
         IN  IF ~p.ok THEN ParseAdditionsFrom(Tail(files), out)
             ELSE IF p.doc.t # "obj" THEN Raised
             ELSE IF AdditionName(p.doc.o) = <<>> THEN ParseAdditionsFrom(Tail(files), out)
             ELSE ParseAdditionsFrom(Tail(files),
                      DictSet(out, AdditionName(p.doc.o), WithFormsAndLabels(p.doc.o)))

parse_species_additions(files) == ParseAdditionsFrom(files, EmptyDict)

\* str(entry.get("pokemon","")).strip().lower() or _name_from_spawn_filename(path)
AdditionPokemonName(entry, spawn_path) ==
    LET given == Lower(Strip(PyStr(Get(entry.o, "pokemon", JStr(<<>>)))))
    IN  IF given # <<>> THEN given ELSE name_from_spawn_filename(spawn_path)

\* the inner loop of merge_additions_against_spawns over one spawn document
RECURSIVE MergeAdditionEntries(_, _, _, _)
MergeAdditionEntries(entries, file, additions_by_name, out) ==
    IF entries = <<>> THEN Returned(out)
    ELSE LET entry == Head(entries)
         IN  IF entry.t # "obj" THEN Raised
             ELSE LET pname == AdditionPokemonName(entry, file.k)
                  IN  IF pname = <<>> \/ ~DictHas(additions_by_name, pname)
                      THEN MergeAdditionEntries(Tail(entries), file, additions_by_name, out)
                      ELSE LET b == build_merged_entry(<<"0","0","0","0">>,
                                        Some(DictGet(additions_by_name, pname, None)),
                                        entry, Some(file.k), None, Some(file.v.arch),
                                        None, <<>>, None)
                           IN  IF b.exc THEN Raised
                               ELSE MergeAdditionEntries(Tail(entries), file, additions_by_name,
                                        IF b.val.some
                                        THEN Append(out, [b.val.val EXCEPT
                                                 !["Dex Number"] = <<"#","-","-","-","-">>])
                                        ELSE out)

\* the outer loop over the spawn files
RECURSIVE MergeAdditionsFrom(_, _, _)
MergeAdditionsFrom(files, additions_by_name, out) ==
    IF files = <<>> THEN Returned(out)
    ELSE LET p == Loads(Head(files).v.blob)
         IN  IF ~p.ok THEN MergeAdditionsFrom(Tail(files), additions_by_name, out)
             ELSE IF p.doc.t # "obj" THEN Raised
             ELSE LET r == MergeAdditionEntries(Get(p.doc.o, "spawns", <<>>), Head(files),
                                                additions_by_name, out)
                  IN  IF r.exc THEN Raised
                      ELSE MergeAdditionsFrom(Tail(files), additions_by_name, r.val)

merge_additions_against_spawns(files, additions_by_name) ==
    MergeAdditionsFrom(files, additions_by_name, <<>>)

-----------------------------------------------------------------------------
(* main.py: sorting                                                        *)

\* the characters of the model in code point order
CodeOrder ==
    <<" ", "#", ",", "-", ".", "/">> \o DigitChars \o <<":">> \o UpperChars
        \o <<"_">> \o LowerChars
CodePoint(c) == CHOOSE i \in DOMAIN CodeOrder : CodeOrder[i] = c

\* a < b for two str
RECURSIVE StrLess(_, _)
StrLess(a, b) ==
    IF b = <<>> THEN FALSE
    ELSE IF a = <<>> THEN TRUE
    ELSE IF Head(a) = Head(b) THEN StrLess(Tail(a), Tail(b))
    ELSE CodePoint(Head(a)) < CodePoint(Head(b))

\* a < b for two (str, str) sort keys
KeyLess(a, b) == StrLess(a[1], b[1]) \/ (a[1] = b[1] /\ StrLess(a[2], b[2]))

\* args.sort_primary or cfg.get("primary_sorting_key", "Pokemon Name"), and
\* the secondary key, both at their defaults
primary == "Pokemon Name"
secondary == "Spawn ID"

\* str(e.get(key, "")).lower() of a merged row, whose cells are str
RowSortKey(e) == <<Lower(Get(e, primary, <<>>)), Lower(Get(e, secondary, <<>>))>>

\* the same of a skipped entry, whose cells may be None
OptStr(o) == IF o.some THEN o.val ELSE <<"N","o","n","e">>
SkippedSortKey(e) ==
    <<Lower(OptStr(Get(e, primary, Some(<<>>)))),
      Lower(OptStr(Get(e, secondary, Some(<<>>))))>>

\* index i inserted behind every index whose key is not greater
RECURSIVE InsertByKey(_, _, _)
InsertByKey(sorted, i, keys) ==
    IF sorted = <<>> THEN <<i>>
    ELSE IF KeyLess(keys[i], keys[Head(sorted)]) THEN <<i>> \o sorted
    ELSE <<Head(sorted)>> \o InsertByKey(Tail(sorted), i, keys)

RECURSIVE SortIndices(_, _)
SortIndices(keys, n) ==
    IF n = 0 THEN <<>> ELSE InsertByKey(SortIndices(keys, n - 1), n, keys)

\* the list left in the order it came in
Unsorted(list, keys) == list

\* sorted(list, key=...): stable, ascending; keys[i] is the key of list[i]
Sorted(list, keys) ==
    LET perm == SortIndices(keys, Len(list))
    IN  [j \in 1..Len(list) |-> list[perm[j]]]

-----------------------------------------------------------------------------
(* column_names.py and output_writer.py                                    *)

column_names ==
    <<"Dex Number", "Pokemon Name", "Primary Type", "Secondary Type", "Rarity",
      "Sky", "Light", "Time", "Weather", "Biomes", "Anti-Biomes", "Structures",
      "Anti-Structures", "Base Blocks", "Nearby Blocks", "Moon Phase",
      "Anti-Moon Phase", "Presets", "Generation", "Labels", "Egg Groups",
      "Weight", "Context", "Spawn ID", "Species Archive",
      "Original Spawn Archive", "Original Species Archive">>

skipped_entries_column_names ==
    <<"Dex Number", "Pokemon Name", "Primary Type", "Secondary Type",
      "Egg Groups", "Generation", "Labels", "Species Archive">>

\* the columns of the main CSV that the model carries: those of a merged row
\* and "Light", which no row has
CarriedColumns == SelectSeq(column_names, LAMBDA c : c \in RowColumns \cup {"Light"})

\* csv.DictWriter: a missing key is written as "", and so is None
CsvRecord(row, fieldnames) ==
    [c \in Range(fieldnames) |-> IF c \in DOMAIN row THEN row[c] ELSE <<>>]
CsvSkippedRecord(row, fieldnames) ==
    [c \in Range(fieldnames) |->
        IF c \in DOMAIN row /\ row[c].some THEN row[c].val ELSE <<>>]

\* the writer loop with the rows left in the last batch never written
RECURSIVE WriteBatchesNoFlush(_, _, _, _)
WriteBatchesNoFlush(records, batch, size, file) ==
    IF records = <<>> THEN file
    ELSE LET b == Append(batch, Head(records))
         IN  IF Len(b) >= size THEN WriteBatchesNoFlush(Tail(records), <<>>, size, file \o b)
             ELSE WriteBatchesNoFlush(Tail(records), b, size, file)

\* the writer loop: rows gathered into a batch, written when it is full, the
\* rest written at the end
RECURSIVE WriteBatches(_, _, _, _)
WriteBatches(records, batch, size, file) ==
    IF records = <<>> THEN file \o batch
    ELSE LET b == Append(batch, Head(records))
         IN  IF Len(b) >= size THEN WriteBatches(Tail(records), <<>>, size, file \o b)
             ELSE WriteBatches(Tail(records), b, size, file)

write_main_csv(records, size) ==
    [header  |-> CarriedColumns,
     records |-> WriteBatches([i \in DOMAIN records |-> CsvRecord(records[i], CarriedColumns)],
                              <<>>, size, <<>>)]

write_skipped_entries_csv(records, size) ==
    [header  |-> skipped_entries_column_names,
     records |-> WriteBatches([i \in DOMAIN records |->
                                  CsvSkippedRecord(records[i], skipped_entries_column_names)],
                              <<>>, size, <<>>)]

write_additions_csv(records, size) ==
    [header  |-> CarriedColumns,
     records |-> WriteBatches([i \in DOMAIN records |-> CsvRecord(records[i], CarriedColumns)],
                              <<>>, size, <<>>)]

\* the file names, with an empty config and no overrides
out_main == "output.csv"
out_skipped == "skipped_entries.csv"
out_additions == "species_addition_entries.csv"

-----------------------------------------------------------------------------
(* main.py: the run                                                        *)

Modes == {"default", "additions", "skipped", "full"}

\* apply_mode with the main CSV also written in the "skipped" mode
apply_mode_skipped_writes_main(m) ==
    [include_normal    |-> m # "additions",
     write_main        |-> m # "additions",
     write_skipped     |-> m \in {"skipped", "full"},
     include_additions |-> m \in {"additions", "full"},
     include_spawn_without_species |-> FALSE]

\* apply_mode
apply_mode(m) ==
    CASE m = "default"   -> [include_normal |-> TRUE,  write_main |-> TRUE,
                             write_skipped |-> FALSE, include_additions |-> FALSE,
                             include_spawn_without_species |-> FALSE]
      [] m = "additions" -> [include_normal |-> FALSE, write_main |-> FALSE,
                             write_skipped |-> FALSE, include_additions |-> TRUE,
                             include_spawn_without_species |-> FALSE]
      [] m = "skipped"   -> [include_normal |-> TRUE,  write_main |-> FALSE,
                             write_skipped |-> TRUE,  include_additions |-> FALSE,
                             include_spawn_without_species |-> FALSE]
      [] m = "full"      -> [include_normal |-> TRUE,  write_main |-> TRUE,
                             write_skipped |-> TRUE,  include_additions |-> TRUE,
                             include_spawn_without_species |-> FALSE]
      [] OTHER           -> [include_normal |-> TRUE,  write_main |-> TRUE,
                             write_skipped |-> FALSE, include_additions |-> FALSE,
                             include_spawn_without_species |-> FALSE]

\* asyncio.Semaphore(10)
SemaphoreLimit == 10

\* iter_keys: the keys of matched that have species JSON, in dict order
iter_keys(m, include_spawn_wo_species) ==
    LET kept == SelectSeq(m, LAMBDA e : include_spawn_wo_species \/ e.v.species_data.some)
    IN  [i \in DOMAIN kept |-> kept[i].k]

\* for r, s in normal_results: rows.extend(r) if r; skipped.append(s) if s
\* and the skipped CSV is asked for
RECURSIVE ExtendRows(_, _)
ExtendRows(results, out) ==
    IF results = <<>> THEN out
    ELSE ExtendRows(Tail(results),
                    IF Head(results).r.some THEN out \o Head(results).r.val ELSE out)

RECURSIVE AppendSkipped(_, _, _)
AppendSkipped(results, write_skipped_csv, out) ==
    IF results = <<>> THEN out
    ELSE AppendSkipped(Tail(results), write_skipped_csv,
                       IF Head(results).s.some /\ write_skipped_csv
                       THEN Append(out, Head(results).s.val) ELSE out)

\* the slot of a result whose task has not ended
NotYet == [exc |-> FALSE, r |-> None, s |-> None, pending |-> TRUE]

\* main up to `if include_normal:`: the mode picks the path
Start ==
    /\ pc = "start"
    /\ pc' = IF apply_mode(mode).include_normal THEN "index_spawn" ELSE "additions"
    /\ UNCHANGED <<scanVars, fileVars, indexVars, entryVars, runVars>>

\* asyncio.gather(*[process_with_limit(d) for d in iter_keys]): one task per key
StartGather ==
    /\ pc = "merge"
    /\ LET keys == iter_keys(matched, apply_mode(mode).include_spawn_without_species)
       IN  /\ task' = [i \in DOMAIN keys |-> "pending"]
           /\ normal_results' = [i \in DOMAIN keys |-> NotYet]
    /\ sem' = SemaphoreLimit
    /\ pc' = "gather"
    /\ UNCHANGED <<scanVars, fileVars, indexVars, entryVars, rows, skipped, addition_rows,
                   rows_sorted, skipped_sorted, additions_sorted, written, mode>>

\* the exit of `async with sem` that gives the permit back only on a return
release_on_return_only(value, result) == IF result.exc THEN value ELSE value + 1

\* the exit of `async with sem`: sem.release() on a return and on an
\* exception alike
release(value, result) == value + 1

\* `async with sem:` of task i.  The tasks start in the order of iter_keys and
\* none of them suspends before it ends, so task i starts when those before it
\* are done.
TaskAcquire(i) ==
    /\ pc = "gather"
    /\ i \in DOMAIN task /\ task[i] = "pending"
    /\ \A j \in 1..(i - 1) : task[j] = "done"
    /\ sem > 0
    /\ sem' = sem - 1
    /\ task' = [task EXCEPT ![i] = "holding"]
    /\ UNCHANGED <<scanVars, fileVars, indexVars, entryVars, normal_results, rows, skipped,
                   addition_rows, rows_sorted, skipped_sorted, additions_sorted, written,
                   mode, pc>>

\* `return await process_entry(dex, matched)` and the release of the permit,
\* which `async with` does on return and on an exception alike
TaskProcess(i) ==
    /\ pc = "gather"
    /\ i \in DOMAIN task /\ task[i] = "holding"
    /\ LET keys == iter_keys(matched, apply_mode(mode).include_spawn_without_species)
           res  == process_entry(keys[i], matched)
       IN  /\ normal_results' = [normal_results EXCEPT ![i] = res]
           /\ sem' = release(sem, res)
    /\ task' = [task EXCEPT ![i] = "done"]
    /\ UNCHANGED <<scanVars, fileVars, indexVars, entryVars, rows, skipped,
                   addition_rows, rows_sorted, skipped_sorted, additions_sorted, written,
                   mode, pc>>

\* gather returns once every task is done: it raises the exception of a task
\* that raised, which leaves main through its `finally`; else the results are
\* folded into rows and skipped
GatherReturn ==
    /\ pc = "gather"
    /\ \A i \in DOMAIN task : task[i] = "done"
    /\ IF \E i \in DOMAIN normal_results : normal_results[i].exc
       THEN /\ pc' = "aborted"
            /\ UNCHANGED <<rows, skipped>>
       ELSE /\ rows' = ExtendRows(normal_results, rows)
            /\ skipped' = AppendSkipped(normal_results, apply_mode(mode).write_skipped, skipped)
            /\ pc' = "additions"
    /\ UNCHANGED <<scanVars, fileVars, indexVars, entryVars, task, sem, normal_results,
                   addition_rows, rows_sorted, skipped_sorted, additions_sorted, written, mode>>

\* the species additions path
Additions ==
    /\ pc = "additions"
    /\ IF apply_mode(mode).include_additions
       THEN LET additions_by_name == parse_species_additions(species_addition_files)
                merged == IF additions_by_name.exc THEN Raised
                          ELSE merge_additions_against_spawns(spawn_files, additions_by_name.val)
            IN  IF merged.exc
                THEN pc' = "aborted" /\ UNCHANGED addition_rows
                ELSE pc' = "sort" /\ addition_rows' = merged.val
       ELSE pc' = "sort" /\ UNCHANGED addition_rows
    /\ UNCHANGED <<scanVars, fileVars, indexVars, entryVars, task, sem, normal_results,
                   rows, skipped, rows_sorted, skipped_sorted, additions_sorted, written, mode>>

\* the three sorted(...) calls
SortAll ==
    /\ pc = "sort"
    /\ rows_sorted' = Sorted(rows, [i \in DOMAIN rows |-> RowSortKey(rows[i])])
    /\ skipped_sorted' = Sorted(skipped, [i \in DOMAIN skipped |-> SkippedSortKey(skipped[i])])
    /\ additions_sorted' = Sorted(addition_rows,
                                  [i \in DOMAIN addition_rows |-> RowSortKey(addition_rows[i])])
    /\ pc' = "output"
    /\ UNCHANGED <<scanVars, fileVars, indexVars, entryVars, task, sem, normal_results,
                   rows, skipped, addition_rows, written, mode>>

\* the three writers, each behind its flags
Output ==
    /\ pc = "output"
    /\ LET flags == apply_mode(mode)
           w1 == IF flags.include_normal /\ flags.write_main
                 THEN DictSet(written, out_main, write_main_csv(rows_sorted, batch_size)) ELSE written
           w2 == IF flags.include_normal /\ flags.write_skipped
                 THEN DictSet(w1, out_skipped, write_skipped_entries_csv(skipped_sorted, batch_size)) ELSE w1
           w3 == IF flags.include_additions
                 THEN DictSet(w2, out_additions, write_additions_csv(additions_sorted, batch_size)) ELSE w2
       IN  written' = w3
    /\ pc' = "done"
    /\ UNCHANGED <<scanVars, fileVars, indexVars, entryVars, task, sem, normal_results,
                   rows, skipped, addition_rows, rows_sorted, skipped_sorted,
                   additions_sorted, mode>>

-----------------------------------------------------------------------------
(* The run on the files of a scan                                          *)

AdditionFile(name, blob, arch) ==
    LET path == AdditionPrefix \o <<"/">> \o name
    IN  [k |-> path, v |-> FileTuple(path, blob, arch)]

\* species_addition documents
AdditionPika ==
    JObj([target_id |-> <<"c",":","P","i","k","a">>, primaryType |-> <<"i","c","e">>,
          labels |-> <<<<"g","e","n","9">>, <<"n","e","w">>>>])
AdditionMis ==
    JObj([name |-> <<" ","M","i","s">>, primaryType |-> <<"b","u","g">>])
AdditionList == JList(<<JInt(1)>>)

RunSpawnCandidates ==
    { SpawnFile(<<"0","0","2","5","_","p","i","k","a",".json">>, JsonBytes(DocPika), ArchA),
      SpawnFile(<<"0","0","2","6","_","r","a","i",".json">>, BadBytes, ArchB),
      SpawnFile(<<"2","6","_","r","a","i",".json">>, JsonBytes(DocList), ArchB),
      SpawnFile(<<"0","0","0","_","m","i","s",".json">>, JsonBytes(DocBlankThenRai), ArchA) }

RunSpeciesCandidates ==
    { SpeciesFile(<<"p","i","k","a",".json">>, JsonBytes(SpeciesPika), ArchA),
      SpeciesFile(<<"r","a","i",".json">>, JsonBytes(SpeciesRai), ArchB),
      SpeciesFile(<<"m","i","s",".json">>, JsonBytes(SpeciesNoNumber), ArchA) }

RunAdditionCandidates ==
    { AdditionFile(<<"p","i","k","a",".json">>, JsonBytes(AdditionPika), ArchB),
      AdditionFile(<<"m","i","s",".json">>, JsonBytes(AdditionMis), ArchA),
      AdditionFile(<<"l","s","t",".json">>, JsonBytes(AdditionList), ArchA) }

\* how many files of the three kinds, all told, the scanner found
MaxRunFiles == 4

InitRun ==
    /\ ScanIdle /\ RunIdle
    /\ mode \in Modes
    /\ \E n \in 0..MaxRunFiles : \E m \in 0..(MaxRunFiles - n) :
           /\ spawn_files \in DictsFrom(RunSpawnCandidates, n)
           /\ species_files \in DictsFrom(RunSpeciesCandidates, m)
           /\ species_addition_files \in DictsFrom(RunAdditionCandidates, MaxRunFiles - n - m)
    /\ pc = "start"

NextRun ==
    \/ Start
    \/ BuildSpawnDex
    \/ BuildSpeciesDex
    \/ MatchDex
    \/ StartGather
    \/ \E i \in DOMAIN task : TaskAcquire(i)
    \/ \E i \in DOMAIN task : TaskProcess(i)
    \/ GatherReturn
    \/ Additions
    \/ SortAll
    \/ Output

SpecRun == InitRun /\ [][NextRun]_vars

-----------------------------------------------------------------------------
(* Failures while merging one key                                          *)

\* the keys the tasks of the run stand for
TaskKeys == iter_keys(matched, FALSE)

\* the merged rows and skipped entries that carry a key
RowsOfKey(list, dex) ==
    SelectSeq(list, LAMBDA e : e["Dex Number"] = <<"#">> \o dex)
SkippedOfKey(list, dex) ==
    SelectSeq(list, LAMBDA e : e["Dex Number"] = Some(dex))

\* C7: no failure while merging one key crosses the key boundary: when the
\* task of a key has raised, the run does not abort, and once the run is done
\* in a mode that writes the main CSV the rows of every other key are in it.
C7_NoFailureCrossesIdentifierBoundary ==
    \A i \in DOMAIN task :
        (task[i] = "done" /\ normal_results[i].exc) =>
            /\ pc # "aborted"
            /\ (pc = "done" /\ DictHas(written, out_main)) =>
                   \A j \in DOMAIN task \ {i} :
                       (~normal_results[j].exc /\ normal_results[j].r.some) =>
                           Len(RowsOfKey(DictGet(written, out_main, None).records, TaskKeys[j]))
                               = Len(normal_results[j].r.val)

\* the spawn side of a key is present and its bytes are not JSON
ParseFails(m) == ~SpawnSideFalsy(m) /\ ~Loads(m.spawn_bytes.val).ok

\* the matched dict without one key
Without(d, key) == SelectSeq(d, LAMBDA e : e.k # key)

\* C8: when the spawn bytes of a key fail to parse as JSON, the task of that
\* key ends without an exception, with no merged rows and no skipped entry;
\* the result of every other key is what it is without that key; and neither
\* the collected rows and skipped entries nor the written main CSV hold
\* anything of that key.
C8_ParseFailureAbortsOnlyItsKey ==
    \A i \in DOMAIN task :
        (task[i] = "done" /\ ParseFails(DictGet(matched, TaskKeys[i], None))) =>
            /\ ~normal_results[i].exc
            /\ IsNone(normal_results[i].r)
            /\ IsNone(normal_results[i].s)
            /\ \A j \in DOMAIN task \ {i} :
                   task[j] = "done" =>
                       normal_results[j] =
                           process_entry(TaskKeys[j], Without(matched, TaskKeys[i]))
            /\ RowsOfKey(rows, TaskKeys[i]) = <<>>
            /\ SkippedOfKey(skipped, TaskKeys[i]) = <<>>
            /\ DictHas(written, out_main) =>
                   LET file == DictGet(written, out_main, None)
                   IN  /\ RowsOfKey(file.records, TaskKeys[i]) = <<>>
                       /\ Len(file.records) = Len(rows)

\* a finished run in which one key had spawn bytes that are not JSON and the
\* main CSV holds the rows of another key
C8_Witness ==
    /\ pc = "done"
    /\ DictHas(written, out_main)
    /\ DictGet(written, out_main, None).records # <<>>
    /\ \E i \in DOMAIN task : ParseFails(DictGet(matched, TaskKeys[i], None))

-----------------------------------------------------------------------------
(* The whole of main: the scan, then the run on what it found              *)

\* result = extract_archives_in_memory(...) has returned to main
ReturnToMain ==
    /\ pc = "extracted"
    /\ pc' = "start"
    /\ UNCHANGED <<scanVars, fileVars, indexVars, entryVars, runVars>>

InitMain ==
    /\ RunIdle
    /\ mode \in Modes
    /\ dir_exists \in BOOLEAN
    /\ \E l \in Listings(MaxArchives) :
       \E opens \in [DOMAIN l -> BOOLEAN] :
           archives = IF dir_exists
                      THEN [i \in DOMAIN l |->
                               [name |-> l[i].name, entries |-> l[i].entries,
                                opens |-> opens[i] /\ IsArchiveName(l[i].name)]]
                      ELSE <<>>
    /\ fut = <<>> /\ fut_res = <<>> /\ all_files = EmptyDict
    /\ spawn_files = EmptyDict /\ species_files = EmptyDict
    /\ species_addition_files = EmptyDict
    /\ pc = "scan"

NextMain == NextScan \/ ReturnToMain \/ NextRun

SpecMain == InitMain /\ [][NextMain]_vars

\* C11: when the archive directory does not exist the scan fails before any
\* archive is read and the run aborts: no archive is ever handed to a worker,
\* nothing is extracted, main goes no further than the scan, and none of the
\* three CSV files is written, in every mode.
C11_MissingDirectoryAbortsBeforeOutput ==
    ~dir_exists =>
        /\ pc \in {"scan", "aborted"}
        /\ fut = <<>> /\ all_files = EmptyDict
        /\ spawn_files = EmptyDict /\ species_files = EmptyDict
        /\ species_addition_files = EmptyDict
        /\ written = EmptyDict

\* a run on a missing directory that has aborted, in a mode that writes all
\* three files when it goes through
C11_Witness ==
    /\ ~dir_exists
    /\ mode = "full"
    /\ pc = "aborted"

-----------------------------------------------------------------------------
(* What a run writes                                                       *)

\* the files a mode is to write
OutputsOf(m) ==
    CASE m = "default"   -> {out_main}
      [] m = "additions" -> {out_additions}
      [] m = "skipped"   -> {out_skipped}
      [] m = "full"      -> {out_main, out_skipped, out_additions}

\* C12: the run mode determines exactly which outputs are written: no run
\* ever holds a written file outside the set of its mode, and a run that is
\* done has written every file of that set.
C12_ModeDeterminesOutputs ==
    /\ DictKeys(written) \subseteq OutputsOf(mode)
    /\ pc = "done" => DictKeys(written) = OutputsOf(mode)

\* a finished run in the "skipped" mode, which merged rows it does not write
C12_Witness ==
    /\ pc = "done"
    /\ mode = "skipped"
    /\ rows # <<>>
    /\ DictKeys(written) = {out_skipped}

\* how often x occurs in a sequence
Count(seq, x) == Cardinality({ i \in DOMAIN seq : seq[i] = x })

\* b holds the elements of a, each as often as a does
IsPermutation(a, b) ==
    /\ Len(a) = Len(b)
    /\ \A i \in DOMAIN a : Count(a, a[i]) = Count(b, a[i])

\* no element of a list has a key below that of the element before it
NonDecreasing(keys) ==
    \A i \in 1..(Len(keys) - 1) : ~KeyLess(keys[i + 1], keys[i])

\* C13: once main is past its sorting, each of the three sequences handed to a
\* writer is a permutation of what the merge stage produced and is
\* non-decreasing under (lower-cased primary field, lower-cased secondary
\* field), in whatever order the keys were merged; nothing is written before
\* that, and each written file holds the sorted sequence in its order.
C13_SinksGetSortedPermutation ==
    /\ pc \in {"output", "done"} =>
          /\ IsPermutation(rows, rows_sorted)
          /\ IsPermutation(skipped, skipped_sorted)
          /\ IsPermutation(addition_rows, additions_sorted)
          /\ NonDecreasing([i \in DOMAIN rows_sorted |-> RowSortKey(rows_sorted[i])])
          /\ NonDecreasing([i \in DOMAIN skipped_sorted |-> SkippedSortKey(skipped_sorted[i])])
          /\ NonDecreasing([i \in DOMAIN additions_sorted |-> RowSortKey(additions_sorted[i])])
    /\ pc # "done" => written = EmptyDict
    /\ DictHas(written, out_main) =>
          LET file == DictGet(written, out_main, None)
          IN  /\ Len(file.records) = Len(rows_sorted)
              /\ \A i \in DOMAIN rows_sorted :
                    /\ file.records[i]["Pokemon Name"] = rows_sorted[i]["Pokemon Name"]
                    /\ file.records[i]["Spawn ID"] = rows_sorted[i]["Spawn ID"]
    /\ DictHas(written, out_skipped) =>
          LET file == DictGet(written, out_skipped, None)
          IN  /\ Len(file.records) = Len(skipped_sorted)
              /\ \A i \in DOMAIN skipped_sorted :
                    file.records[i]["Dex Number"] = skipped_sorted[i]["Dex Number"].val
    /\ DictHas(written, out_additions) =>
          LET file == DictGet(written, out_additions, None)
          IN  /\ Len(file.records) = Len(additions_sorted)
              /\ \A i \in DOMAIN additions_sorted :
                    /\ file.records[i]["Pokemon Name"] = additions_sorted[i]["Pokemon Name"]
                    /\ file.records[i]["Spawn ID"] = additions_sorted[i]["Spawn ID"]

\* a finished run whose merge stage produced the rows in another order than
\* the one written
C13_Witness ==
    /\ pc = "done"
    /\ DictHas(written, out_main)
    /\ Len(rows) >= 3
    /\ rows_sorted # rows

-----------------------------------------------------------------------------
(* The writers called on their own, with any batch size                    *)

\* rows as the merge stage makes them, told apart by name and spawn id
WriterRow(name, id) ==
    [c \in RowColumns |->
        CASE c = "Pokemon Name" -> name
          [] c = "Spawn ID"     -> id
          [] c = "Dex Number"   -> <<"#","0","0","2","5">>
          [] OTHER              -> <<>>]

WriterRows ==
    { WriterRow(<<"A","b","r","a">>, <<"a","1">>),
      WriterRow(<<"P","i","k","a">>, <<"p","1">>),
      WriterRow(<<"P","i","k","a">>, <<"p","2">>) }

\* the skipped entry of the same name
WriterSkipped(row) ==
    [c \in SkippedColumns |->
        CASE c = "Pokemon Name"    -> Some(row["Pokemon Name"])
          [] c = "Dex Number"      -> Some(<<"0","0","2","5">>)
          [] c = "Species Archive" -> None
          [] OTHER                 -> Some(<<>>)]

MaxRows == 4
MaxBatch == 5

\* the three writers, each called with the batch size of the call
CallWriters ==
    /\ pc = "call_writers"
    /\ written' = DictSet(DictSet(DictSet(written,
                      out_main, write_main_csv(rows_sorted, batch_arg)),
                      out_skipped, write_skipped_entries_csv(skipped_sorted, batch_arg)),
                      out_additions, write_additions_csv(additions_sorted, batch_arg))
    /\ pc' = "returned"
    /\ UNCHANGED <<scanVars, fileVars, indexVars, entryVars, mode, task, sem, normal_results,
                   rows, skipped, addition_rows, rows_sorted, skipped_sorted,
                   additions_sorted>>

\* sorted row sequences of every length up to MaxRows, every batch size up
\* to MaxBatch
InitWriter ==
    /\ ScanIdle
    /\ spawn_files = EmptyDict /\ species_files = EmptyDict
    /\ species_addition_files = EmptyDict
    /\ spawn_dex = EmptyDict /\ species_dex = EmptyDict /\ matched = EmptyDict
    /\ entry_key = None /\ entry_result = None
    /\ mode = "full" /\ task = EmptyDict /\ sem = 0 /\ normal_results = EmptyDict
    /\ rows = <<>> /\ skipped = <<>> /\ addition_rows = <<>>
    /\ \E n \in 0..MaxRows : \E l \in [1..n -> WriterRows] :
           /\ NonDecreasing([i \in 1..n |-> RowSortKey(l[i])])
           /\ rows_sorted = l
           /\ additions_sorted = l
           /\ skipped_sorted = [i \in 1..n |-> WriterSkipped(l[i])]
    /\ batch_arg \in 1..MaxBatch
    /\ written = EmptyDict
    /\ pc = "call_writers"

NextWriter == CallWriters

SpecWriter == InitWriter /\ [][NextWriter]_vars

\* C14: for every row sequence and every batch size each writer emits its
\* header and then every row once, in input order: the content is what
\* writing the rows one by one gives, whether the batch size is below, at or
\* above the number of rows.
C14_BatchSizeDoesNotChangeContent ==
    pc = "returned" =>
        LET main_file == DictGet(written, out_main, None)
            skip_file == DictGet(written, out_skipped, None)
            add_file  == DictGet(written, out_additions, None)
        IN  /\ main_file.header = CarriedColumns
            /\ main_file.records =
                   [i \in DOMAIN rows_sorted |-> CsvRecord(rows_sorted[i], CarriedColumns)]
            /\ main_file = write_main_csv(rows_sorted, 1)
            /\ skip_file.header = skipped_entries_column_names
            /\ skip_file.records =
                   [i \in DOMAIN skipped_sorted |->
                       CsvSkippedRecord(skipped_sorted[i], skipped_entries_column_names)]
            /\ skip_file = write_skipped_entries_csv(skipped_sorted, 1)
            /\ add_file.header = CarriedColumns
            /\ add_file.records =
                   [i \in DOMAIN additions_sorted |-> CsvRecord(additions_sorted[i], CarriedColumns)]
            /\ add_file = write_additions_csv(additions_sorted, 1)

\* three rows written with a batch size of two: one full batch and a rest
C14_Witness ==
    /\ pc = "returned"
    /\ Len(rows_sorted) = 3
    /\ batch_arg = 2
    /\ Len(DictGet(written, out_main, None).records) = 3

-----------------------------------------------------------------------------
(* The per-field rules of build_merged_entry: one matched key whose spawn   *)
(* document holds one named spawn condition, its fields drawn from a product *)

\* a JSON object from a record of optional members: the absent ones are left out
ObjOf(members) == [k \in { x \in DOMAIN members : members[x].some } |-> members[k].val]

\* a JSON boolean member: absent, null, true or false
BoolMembers == {None, Some(JNull), Some(JBool(TRUE)), Some(JBool(FALSE))}

\* canSeeSky as the spawn files carry it: absent, true or false
SkyMembers == {None, Some(JBool(TRUE)), Some(JBool(FALSE))}

\* condition.minSkyLight and condition.maxSkyLight: absent or a light level
LightMembers == {None, Some(JInt(8))}

\* condition.moonPhase: absent, null, the list [0, 4] or the string "7"
MoonMembers == {None, Some(JNull), Some(JList(<<JInt(0), JInt(4)>>)), Some(JStr(<<"7">>))}

\* location tokens
TokForest      == <<"m","i","n","e","c","r","a","f","t",":","o","v","e","r","w","o","r","l","d","/","i","s","_","f","o","r","e","s","t">>
TokUnderground == <<"i","s","_","u","n","d","e","r","g","r","o","u","n","d">>
TokOverworld   == <<"#","m","i","n","e","c","r","a","f","t",":","i","s","_","o","v","e","r","w","o","r","l","d">>
TokThisIsHot   == <<"c","o","b","b","l","e","m","o","n",":","n","e","t","h","e","r","/","t","h","i","s","_","i","s","_","h","o","t">>

\* condition.biomes: absent, or a list of one or two location tokens
BiomeMembers ==
    {None}
    \cup { Some(JList(<<JStr(t)>>)) : t \in {TokForest, TokUnderground, TokOverworld, TokThisIsHot} }
    \cup { Some(JList(<<JStr(TokForest), JStr(TokOverworld)>>)) }

\* the spawn condition with the given members
FieldEntry(top_sky, thunder, rain, sky, min_light, max_light, moon, biomes) ==
    JObj(ObjOf([pokemon   |-> Some(JStr(<<"p","i","k","a">>)),
                id        |-> Some(<<"p","1">>),
                canSeeSky |-> top_sky,
                condition |-> Some(JObj(ObjOf([isThundering |-> thunder,
                                               isRaining    |-> rain,
                                               canSeeSky    |-> sky,
                                               minSkyLight  |-> min_light,
                                               maxSkyLight  |-> max_light,
                                               moonPhase    |-> moon,
                                               biomes       |-> biomes])))]))

\* the numbers of the lunar phases
PhaseNumbers == 0..8

\* the three ways of writing phase k: an integer, a one-element list, a digit string
PhaseShapes(k) == <<JInt(k), JList(<<JInt(k)>>), JStr(NatToStr(k))>>

\* moon phase values that name no phase: a non-numeric string, a list
\* holding one, a list holding null, an object, an integer out of range
UnparseablePhases ==
    <<JStr(<<"x">>), JList(<<JStr(<<"x">>)>>), JList(<<JNull>>), JObj([a |-> JInt(1)]), JInt(9)>>

\* the spawn condition whose only condition member is a moon phase
MoonEntry(moon) == FieldEntry(None, None, None, None, None, None, Some(moon), None)

\* spawn conditions without a condition object, by pokemon name
NamedEntries ==
    { Cond(<<"p","i","k","a">>, <<"p","1">>),
      Cond(<<"p","i","k","a"," ","A","L","O">>, <<"p","2">>) }

\* species documents with forms and labels of several shapes
SpeciesNamelessForm ==
    [nationalPokedexNumber |-> JInt(25), name |-> <<"P","i","k","a">>,
     primaryType |-> <<"e","l","e","c">>,
     labels |-> <<<<"G","e","n","1">>>>,
     forms |-> <<[primaryType |-> <<"d","r","k">>],
                 [name |-> <<"A","l","o">>, primaryType |-> <<"p","s","y">>]>>]
SpeciesTwoForms ==
    [nationalPokedexNumber |-> JInt(25), name |-> <<"P","i","k","a">>,
     primaryType |-> <<"e","l","e","c">>, secondaryType |-> <<"f","l","y">>,
     eggGroups |-> <<<<"f","l","d">>>>,
     labels |-> <<<<"k","_","r">>, <<"G","E","N","2">>, <<"g","e","n","3">>>>,
     forms |-> <<[name |-> <<"G","m","x">>, primaryType |-> <<"r","o","k">>],
                 [name |-> <<"A","l","o">>, primaryType |-> <<"p","s","y">>,
                  eggGroups |-> <<<<"f","a","e">>>>, labels |-> <<<<"n","e","w">>>>],
                 [name |-> <<"l","o">>, primaryType |-> <<"i","c","e">>]>>]
SpeciesPlain ==
    [nationalPokedexNumber |-> JInt(25), name |-> <<"P","i","k","a">>,
     primaryType |-> <<"e","l","e","c">>]

FieldSpecies == {SpeciesPika, SpeciesNamelessForm, SpeciesTwoForms, SpeciesPlain}

\* every weather and sky setting without moon phase and biomes, and every
\* moon phase and biome setting under two weather settings
FieldEntries ==
    { FieldEntry(top_sky, thunder, rain, sky, min_light, max_light, None, None) :
        top_sky \in SkyMembers, thunder \in BoolMembers, rain \in BoolMembers,
        sky \in SkyMembers, min_light \in LightMembers, max_light \in LightMembers }
    \cup
    { FieldEntry(None, thunder, None, None, None, None, moon, biomes) :
        thunder \in {None, Some(JBool(TRUE))}, moon \in MoonMembers, biomes \in BiomeMembers }

\* the one spawn file and the one species file of key 0025
FieldSpawnFiles(e) ==
    <<SpawnFile(<<"0","0","2","5","_","p","i","k","a",".json">>,
                JsonBytes(JObj([spawns |-> <<e>>])), ArchA)>>
FieldSpeciesFiles(sp) ==
    <<SpeciesFile(<<"p","i","k","a",".json">>, JsonBytes(sp), ArchA)>>

InitFields ==
    /\ ScanIdle /\ RunIdle
    /\ mode = "default"
    /\ \/ \E e \in FieldEntries, sp \in {SpeciesPika} :
              spawn_files = FieldSpawnFiles(e) /\ species_files = FieldSpeciesFiles(sp)
       \/ \E k \in PhaseNumbers, i \in 1..3 :
              /\ spawn_files = FieldSpawnFiles(MoonEntry(PhaseShapes(k)[i]))
              /\ species_files = FieldSpeciesFiles(SpeciesPika)
       \/ \E i \in DOMAIN UnparseablePhases :
              /\ spawn_files = FieldSpawnFiles(MoonEntry(UnparseablePhases[i]))
              /\ species_files = FieldSpeciesFiles(SpeciesPika)
       \/ \E e \in NamedEntries, sp \in FieldSpecies :
              spawn_files = FieldSpawnFiles(e) /\ species_files = FieldSpeciesFiles(sp)
    /\ species_addition_files = EmptyDict
    /\ pc = "index_spawn"

SpecFields == InitFields /\ [][NextIndex]_vars

\* the spawn condition process_entry was called on, and its condition object
CalledCond == CalledEntry.spawn_bytes.val.doc.o.spawns[1].o
CalledCondition == Get(CalledCond, "condition", JObj([x \in {} |-> <<>>])).o

\* the condition has a moon phase that is neither null nor empty
HasMoonPhase == Truthy(Get(CalledCondition, "moonPhase", JNull))

\* a member that is present and true
IsTrue(obj, key) == key \in DOMAIN obj /\ obj[key] = JBool(TRUE)
IsFalse(obj, key) == key \in DOMAIN obj /\ obj[key] = JBool(FALSE)

\* C15: for every combination of isThundering and isRaining in {absent, null,
\* true, false} the row's Weather is "Thunder" if isThundering is true, else
\* "Rain" if isRaining is true, else "Clear" if isRaining is false, else "Any".
C15_WeatherFollowsOrderedRule ==
    (entry_key.some /\ ~HasMoonPhase) =>
        /\ ~CalledResult.exc
        /\ CalledResult.r.some
        /\ Len(CalledResult.r.val) = 1
        /\ CalledResult.r.val[1]["Weather"] =
              IF IsTrue(CalledCondition, "isThundering") THEN <<"T","h","u","n","d","e","r">>
              ELSE IF IsTrue(CalledCondition, "isRaining") THEN <<"R","a","i","n">>
              ELSE IF IsFalse(CalledCondition, "isRaining") THEN <<"C","l","e","a","r">>
              ELSE <<"A","n","y">>

\* a thundering condition with isRaining false gave a "Thunder" row
C15_Witness ==
    /\ entry_key.some
    /\ IsTrue(CalledCondition, "isThundering")
    /\ IsFalse(CalledCondition, "isRaining")
    /\ CalledResult.r.some
    /\ CalledResult.r.val[1]["Weather"] = <<"T","h","u","n","d","e","r">>

\* C16: the row's Sky is decided by canSeeSky of the spawn condition, else of
\* its condition: true gives "MUST SEE", false "CANNOT SEE", absent at both
\* levels "Any", and no other value is produced.
C16_SkyFromCanSeeSkyOnly ==
    (entry_key.some /\ ~HasMoonPhase) =>
        /\ ~CalledResult.exc
        /\ CalledResult.r.some
        /\ Len(CalledResult.r.val) = 1
        /\ LET can_see_sky == IF "canSeeSky" \in DOMAIN CalledCond THEN CalledCond.canSeeSky
                              ELSE Get(CalledCondition, "canSeeSky", JNull)
           IN  CalledResult.r.val[1]["Sky"] =
                  IF can_see_sky = JBool(TRUE) THEN <<"M","U","S","T"," ","S","E","E">>
                  ELSE IF can_see_sky = JBool(FALSE) THEN <<"C","A","N","N","O","T"," ","S","E","E">>
                  ELSE <<"A","n","y">>

\* C17: the row of a spawn condition has Moon Phase "Full Moon, New Moon" for
\* condition.moonPhase [0, 4], "Waxing Gibbous" for "7", and the empty string
\* for a null or absent moonPhase.
C17_MoonPhaseMapping ==
    LET moon     == Get(CalledCondition, "moonPhase", JNull)
        IsList04 == moon.t = "list" /\ Len(moon.v) = 2 /\ moon.v = <<JInt(0), JInt(4)>>
        IsStr7   == moon.t = "str" /\ moon.v = <<"7">>
    IN  (entry_key.some /\ (IsList04 \/ IsStr7 \/ moon.t = "null")) =>
            /\ ~CalledResult.exc
            /\ CalledResult.r.some
            /\ Len(CalledResult.r.val) = 1
            /\ CalledResult.r.val[1]["Moon Phase"] =
                  IF IsList04 THEN <<"F","u","l","l"," ","M","o","o","n",","," ","N","e","w"," ","M","o","o","n">>
                  ELSE IF IsStr7 THEN <<"W","a","x","i","n","g"," ","G","i","b","b","o","u","s">>
                  ELSE <<>>

\* a location token as the format rules give it: the namespace prefix
\* stripped, a leading "is_" stripped, underscores replaced by spaces,
\* title-cased, and "Namespace: Descriptor" around a "/"
FormattedToken(token) ==
    LET rest == IF ":" \in Range(token) THEN Split(token, ":")[2] ELSE token
        Fmt(name) == Title(Replace(IF StartsWith(name, <<"i","s","_">>)
                                   THEN SubSeq(name, 4, Len(name)) ELSE name,
                                   <<"_">>, <<" ">>))
    IN  IF "/" \in Range(rest)
        THEN Fmt(Split(rest, "/")[1]) \o <<":", " ">> \o Fmt(Split(rest, "/")[2])
        ELSE Fmt(rest)

\* C18: the row's Biomes are the condition's location tokens, each formatted
\* by the rules, with and without a namespace alike, joined by ", ":
\* "minecraft:overworld/is_forest" gives "Overworld: Forest", "is_underground"
\* gives "Underground", and an "is_" inside a name stays.
C18_LocationTokensFormatted ==
    (entry_key.some /\ ~HasMoonPhase) =>
        /\ ~CalledResult.exc
        /\ CalledResult.r.some
        /\ Len(CalledResult.r.val) = 1
        /\ LET tokens == Get(CalledCondition, "biomes", JList(<<>>)).v
           IN  /\ CalledResult.r.val[1]["Biomes"] =
                     Join([i \in DOMAIN tokens |-> FormattedToken(tokens[i].v)], <<",", " ">>)
               /\ tokens = <<JStr(TokForest)>> =>
                     CalledResult.r.val[1]["Biomes"] = <<"O","v","e","r","w","o","r","l","d",":"," ","F","o","r","e","s","t">>
               /\ tokens = <<JStr(TokUnderground)>> =>
                     CalledResult.r.val[1]["Biomes"] = <<"U","n","d","e","r","g","r","o","u","n","d">>

\* the spawn conditions of a spawn file, when its bytes are a JSON object
SpawnsOf(file) ==
    LET p == Loads(file.v.blob)
    IN  IF p.ok /\ p.doc.t = "obj" THEN Get(p.doc.o, "spawns", <<>>) ELSE <<>>

\* a spawn condition object without a pokemon name or with a blank one
IsBlankCond(e) ==
    e.t = "obj" /\ ("pokemon" \in DOMAIN e.o => e.o.pokemon.t = "str" /\ IsBlank(e.o.pokemon.v))

\* C19: after the addition merger, every addition row has Dex Number "#----"
\* and an empty Generation, and each spawn condition with a blank pokemon name
\* whose spawn filename (numeric prefix stripped) names an addition record has
\* exactly one addition row.
C19_BlankNameFallsBackToFilename ==
    (pc \in {"sort", "output", "done"} /\ apply_mode(mode).include_additions) =>
        /\ \A i \in DOMAIN addition_rows :
              /\ addition_rows[i]["Dex Number"] = <<"#","-","-","-","-">>
              /\ addition_rows[i]["Generation"] = <<>>
        /\ \A f \in DOMAIN spawn_files :
              \A k \in DOMAIN SpawnsOf(spawn_files[f]) :
                  LET e == SpawnsOf(spawn_files[f])[k]
                      additions_by_name == parse_species_additions(species_addition_files).val
                  IN  (/\ IsBlankCond(e)
                       /\ DictHas(additions_by_name, name_from_spawn_filename(spawn_files[f].k))) =>
                          Len(SelectSeq(addition_rows,
                                  LAMBDA row : row["Spawn ID"] = Get(e.o, "id", Unknown))) = 1

\* C20: every key of the matcher's result is merged: once the normal path has
\* collected its results, a key with a spawn record and no species record has
\* one row per named spawn condition among the rows, as process_entry gives
\* them for that key.
C20_SpawnOnlyKeyIsMerged ==
    (pc \in {"additions", "sort", "output", "done"} /\ apply_mode(mode).include_normal) =>
        \A i \in DOMAIN matched :
            LET dex == matched[i].k
                res == process_entry(dex, matched)
            IN  (/\ matched[i].v.spawn_path.some
                 /\ IsNone(matched[i].v.species_path)
                 /\ ~res.exc /\ res.r.some) =>
                    RowsOfKey(rows, dex) = res.r.val

-----------------------------------------------------------------------------
(* The spawn index over file names of every shape                           *)

\* spawn files whose names collide on a key, have no underscore, start with
\* a letter, or carry more than four digits
SpawnNameCandidates ==
    { SpawnFile(<<"0","0","2","5","_","p","i","k","a",".json">>, JsonBytes(DocPika), ArchA),
      SpawnFile(<<"2","5","_","p","i","k","a",".json">>, JsonBytes(DocBlankThenRai), ArchB),
      SpawnFile(<<"2","5","_","r","a","i",".json">>, EmptyBytes, ArchA),
      SpawnFile(<<"p","i","k","a",".json">>, JsonBytes(DocPika), ArchB),
      SpawnFile(<<"2","5",".json">>, JsonBytes(DocEmptyObj), ArchA),
      SpawnFile(<<"x","2","5","_","p","i","k","a",".json">>, BadBytes, ArchA),
      SpawnFile(<<"1","2","3","4","5","_","b","i","g",".json">>, JsonBytes(DocPika), ArchB),
      SpawnFile(<<"_","p","i","k","a",".json">>, JsonBytes(DocStrCond), ArchB) }

\* how many spawn files the scanner found
MaxSpawnNames == 3

InitSpawnIndex ==
    /\ ScanIdle /\ RunIdle
    /\ mode = "default"
    /\ spawn_files \in DictsFrom(SpawnNameCandidates, MaxSpawnNames)
    /\ species_files = EmptyDict
    /\ species_addition_files = EmptyDict
    /\ pc = "index_spawn"

SpecSpawnIndex == InitSpawnIndex /\ [][NextIndex]_vars

\* C21: once the spawn index is built, every key of it consists of digits
\* only and has width 4, whatever the spawn file names are.
C21_SpawnKeysAreFourDigits ==
    pc \in {"index_species", "match", "merge"} =>
        \A key \in DictKeys(spawn_dex) :
            /\ Len(key) = 4
            /\ \A i \in DOMAIN key : IsDigit(key[i])

\* the positions of spawn_files whose name gives a key
PathsOfKey(key) ==
    { i \in DOMAIN spawn_files :
        EndsWith(spawn_files[i].k, <<".json">>) /\ DexFromFilename(spawn_files[i].k) = key }

\* C22: once the spawn index is built, it holds exactly one entry for each
\* key some spawn file maps to, and that entry is, path, bytes, archive and
\* directory leaf, the file of that key last in the order of spawn_files.
C22_LastIndexedSpawnWins ==
    pc \in {"index_species", "match", "merge"} =>
        /\ DictKeys(spawn_dex) = { DexFromFilename(spawn_files[i].k) : i \in DOMAIN spawn_files }
        /\ \A key \in DictKeys(spawn_dex) :
              LET last == CHOOSE i \in PathsOfKey(key) : \A j \in PathsOfKey(key) : j <= i
                  e    == DictGet(spawn_dex, key, None)
              IN  /\ Cardinality({ n \in DOMAIN spawn_dex : spawn_dex[n].k = key }) = 1
                  /\ e.path = spawn_files[last].k
                  /\ e.blob = spawn_files[last].v.blob
                  /\ e.arch = spawn_files[last].v.arch
                  /\ e.leaf = spawn_files[last].v.leaf

\* three files of key 0025 were indexed and the index holds the third
C22_Witness ==
    /\ pc = "merge"
    /\ Len(spawn_files) = 3
    /\ Cardinality(PathsOfKey(<<"0","0","2","5">>)) = 3
    /\ DictKeys(spawn_dex) = {<<"0","0","2","5">>}
    /\ DictGet(spawn_dex, <<"0","0","2","5">>, None).path = spawn_files[3].k
    /\ DictGet(spawn_dex, <<"0","0","2","5">>, None).path # spawn_files[1].k

\* an archive that opens and holds a target entry that cannot be read
HasUnreadableEntry(file) ==
    /\ file.opens
    /\ \E e \in DOMAIN file.entries :
          IsTargetPath(file.entries[e].path) /\ ~file.entries[e].readable

\* C23: an archive with an entry that cannot be read contributes nothing to
\* the scanner's output: no entry of the output map comes from that archive.
C23_UnreadableEntryDropsArchive ==
    pc = "extracted" =>
        \A i \in DOMAIN archives :
            HasUnreadableEntry(archives[i]) =>
                \A j \in DOMAIN all_files : all_files[j].v.arch # archives[i].name

\* the entries of a dict as a set of (path, value) pairs
Entries(d) == { <<d[i].k, d[i].v>> : i \in DOMAIN d }

\* a path starts with a prefix, atom by atom
Under(path, prefix) ==
    Len(path) >= Len(prefix) /\ \A i \in 1..Len(prefix) : path[i] = prefix[i]

\* C24: the three sub-maps partition the flat output map: together they hold
\* exactly its entries with their values, no path is in two of them, each
\* holds the paths of its own prefix, and a path under the species-addition
\* prefix is in the species-addition sub-map and not in the species one.
C24_SubMapsPartitionOutput ==
    pc = "extracted" =>
        /\ Entries(spawn_files) \cup Entries(species_files) \cup Entries(species_addition_files)
              = Entries(all_files)
        /\ IsDict(spawn_files) /\ IsDict(species_files) /\ IsDict(species_addition_files)
        /\ DictKeys(spawn_files) \cap DictKeys(species_files) = {}
        /\ DictKeys(spawn_files) \cap DictKeys(species_addition_files) = {}
        /\ DictKeys(species_files) \cap DictKeys(species_addition_files) = {}
        /\ \A p \in DictKeys(spawn_files) : Under(p, SpawnPrefix)
        /\ \A p \in DictKeys(species_addition_files) : Under(p, AdditionPrefix)
        /\ \A p \in DictKeys(species_files) : Under(p, SpeciesPrefix) /\ ~Under(p, AdditionPrefix)
        /\ \A p \in DictKeys(all_files) :
              Under(p, AdditionPrefix) =>
                  DictHas(species_addition_files, p) /\ ~DictHas(species_files, p)

\* a scan that returned a spawn entry, a species entry and an entry under the
\* species-addition prefix, which also starts with the species prefix
C24_Witness ==
    /\ pc = "extracted"
    /\ spawn_files # EmptyDict
    /\ species_files # EmptyDict
    /\ DictHas(species_addition_files, PathAddition)
    /\ Under(PathAddition, SpeciesPrefix)

\* the species document and the stripped pokemon name of the called key
CalledSpecies == CalledEntry.species_data.val
CalledPokemon == Strip(CalledCond.pokemon.v)

\* the forms of the called species that have a name which is, case aside, a
\* substring of the pokemon name
QualifyingForms ==
    LET forms == Get(CalledSpecies, "forms", <<>>)
    IN  { i \in DOMAIN forms :
            /\ "name" \in DOMAIN forms[i]
            /\ Contains(Lower(CalledPokemon), Lower(forms[i].name)) }

\* the first of them in list order, else the species document itself
ResolvedByName ==
    IF QualifyingForms = {} THEN CalledSpecies
    ELSE CalledSpecies.forms[CHOOSE i \in QualifyingForms : \A j \in QualifyingForms : i <= j]

\* the one row process_entry returned
CalledRow == CalledResult.r.val[1]

\* C25: the species sub-record behind a row is the first form, in list order,
\* whose name field is a case-insensitive substring of the pokemon name; a
\* form without a name is not selected; with no such form it is the top-level
\* species JSON.  (The sub-records differ in primaryType.)
C25_FirstNamedMatchingFormResolved ==
    (entry_key.some /\ ~HasMoonPhase) =>
        /\ ~CalledResult.exc /\ CalledResult.r.some /\ Len(CalledResult.r.val) = 1
        /\ CalledRow["Primary Type"] = Title(Get(ResolvedByName, "primaryType", <<>>))

\* C26: when a form matches the pokemon name, the row's primary type,
\* secondary type ("-----" when absent), egg groups and non-generation labels
\* are those of the form, not of the top-level species JSON.
C26_FormGivesTypesEggGroupsLabels ==
    (/\ entry_key.some /\ ~HasMoonPhase
     /\ \A i \in DOMAIN Get(CalledSpecies, "forms", <<>>) : "name" \in DOMAIN CalledSpecies.forms[i]
     /\ QualifyingForms # {}) =>
        /\ ~CalledResult.exc /\ CalledResult.r.some /\ Len(CalledResult.r.val) = 1
        /\ CalledRow["Primary Type"] = Title(Get(ResolvedByName, "primaryType", <<>>))
        /\ CalledRow["Secondary Type"] =
              Title(Get(ResolvedByName, "secondaryType", <<"-","-","-","-","-">>))
        /\ CalledRow["Egg Groups"] = Title(Join(Get(ResolvedByName, "eggGroups", <<>>), <<",", " ">>))
        /\ "labels" \in DOMAIN ResolvedByName =>
              CalledRow["Labels"] = MeaningfulLabels(ResolvedByName.labels)

\* the moon phase of the called condition is one of the three shapes of k
IsPhaseShape(moon, k) ==
    \/ moon.t = "int" /\ moon.v = k
    \/ moon.t = "list" /\ Len(moon.v) = 1 /\ moon.v[1].t = "int" /\ moon.v[1].v = k
    \/ moon.t = "str" /\ moon.v = NatToStr(k)


\* C27: for every k in 0..8 the integer k, the list [k] and the digit string
\* of k give a row whose Moon Phase is one and the same phase name, neither
\* empty nor an "Unknown" placeholder.
C27_MoonPhaseShapesAgree ==
    LET moon == Get(CalledCondition, "moonPhase", JNull)
    IN  \A k \in PhaseNumbers :
            (entry_key.some /\ IsPhaseShape(moon, k)) =>
                /\ ~CalledResult.exc /\ CalledResult.r.some /\ Len(CalledResult.r.val) = 1
                /\ CalledRow["Moon Phase"] # <<>>
                /\ ~StartsWith(CalledRow["Moon Phase"], <<"U","n","k","n","o","w","n">>)
                /\ \A i \in 1..3 :
                      get_moon_phase_name(PhaseShapes(k)[i]) = Returned(CalledRow["Moon Phase"])

\* the moon phase of the called condition names no phase
IsUnparseablePhase(moon) ==
    \/ moon.t = "str" /\ \E i \in DOMAIN moon.v : ~IsDigit(moon.v[i])
    \/ moon.t = "list" /\ \E i \in DOMAIN moon.v : moon.v[i].t # "int"
    \/ moon.t = "obj" /\ DOMAIN moon.o # {}
    \/ moon.t = "int" /\ moon.v \notin PhaseNumbers

\* C28: a moon phase value that names no phase does not fail the row: the row
\* is produced and its Moon Phase is a placeholder "Unknown ... Phase".
C28_UnparseableMoonPhaseKeepsRow ==
    (entry_key.some /\ IsUnparseablePhase(Get(CalledCondition, "moonPhase", JNull))) =>
        /\ ~CalledResult.exc /\ CalledResult.r.some /\ Len(CalledResult.r.val) = 1
        /\ StartsWith(CalledRow["Moon Phase"], <<"U","n","k","n","o","w","n">>)
        /\ EndsWith(CalledRow["Moon Phase"], <<"P","h","a","s","e">>)

\* the first label of the called species that starts, case aside, with "gen"
GenTokens ==
    LET labels == Get(CalledSpecies, "labels", <<>>)
    IN  { i \in DOMAIN labels : Len(labels[i]) >= 3 /\ Lower(SubSeq(labels[i], 1, 3)) = <<"g","e","n">> }

\* C29: the row's Generation is "Gen " followed by the capitalized remainder
\* of the first label that starts with "gen" in any letter case, and empty
\* when the species has no such label.
C29_GenerationFromGenLabel ==
    (entry_key.some /\ ~HasMoonPhase) =>
        /\ ~CalledResult.exc /\ CalledResult.r.some /\ Len(CalledResult.r.val) = 1
        /\ CalledRow["Generation"] =
              IF GenTokens = {} THEN <<>>
              ELSE LET token == CalledSpecies.labels[CHOOSE i \in GenTokens : \A j \in GenTokens : i <= j]
                   IN  <<"G","e","n"," ">> \o Capitalize(SubSeq(token, 4, Len(token)))

-----------------------------------------------------------------------------
(* The merge stage over more identifiers than there are permits            *)

\* how many identifiers the matcher joined
MaxUnits == 12

\* which units raise: none, the first, the last, every second
RaisePatterns == {"none", "first", "last", "alternate"}
UnitRaises(pattern, i, n) ==
    CASE pattern = "none"      -> FALSE
      [] pattern = "first"     -> i = 1
      [] pattern = "last"      -> i = n
      [] pattern = "alternate" -> i % 2 = 0

\* the spawn file and the species file of identifier i; a spawn document
\* that is a list makes process_entry raise
UnitSpawnFile(i, raises) ==
    SpawnFile(Pad4(i) \o <<"_","u",".json">>,
              JsonBytes(IF raises THEN DocList ELSE DocPika), ArchA)
UnitSpeciesFile(i) ==
    SpeciesFile(NatToStr(i) \o <<".json">>,
                JsonBytes([nationalPokedexNumber |-> JInt(i), name |-> <<"U">>]), ArchB)

\* main with the indexes built and the keys joined in ascending order
InitPermit ==
    /\ ScanIdle
    /\ entry_key = None /\ entry_result = None /\ batch_arg = batch_size
    /\ task = EmptyDict /\ sem = 0 /\ normal_results = EmptyDict
    /\ rows = <<>> /\ skipped = <<>> /\ addition_rows = <<>>
    /\ rows_sorted = <<>> /\ skipped_sorted = <<>> /\ additions_sorted = <<>>
    /\ written = EmptyDict
    /\ mode = "default"
    /\ \E n \in 0..MaxUnits, pattern \in RaisePatterns :
           /\ spawn_files = [i \in 1..n |-> UnitSpawnFile(i, UnitRaises(pattern, i, n))]
           /\ species_files = [i \in 1..n |-> UnitSpeciesFile(i)]
    /\ species_addition_files = EmptyDict
    /\ spawn_dex = build_spawn_dex_dict(spawn_files)
    /\ species_dex = build_species_dex_dict(species_files)
    /\ matched = match_dex_numbers(spawn_dex, species_dex, [i \in DOMAIN spawn_files |-> Pad4(i)])
    /\ pc = "merge"

NextPermit ==
    \/ StartGather
    \/ \E i \in DOMAIN task : TaskAcquire(i)
    \/ \E i \in DOMAIN task : TaskProcess(i)
    \/ GatherReturn

SpecPermit == InitPermit /\ [][NextPermit]_vars

\* the units inside `async with sem`
Holding == { i \in DOMAIN task : task[i] = "holding" }

\* C30: during the merge stage the permits out are exactly those of the units
\* inside `async with sem`, never more than 10, for any number of
\* identifiers; a unit that has ended, by return or by exception, holds none,
\* and once all units have ended all 10 permits are back.
C30_PermitsBoundedAndReleased ==
    (pc \in {"gather", "additions", "aborted"} /\ matched # EmptyDict) =>
        /\ sem \in 0..SemaphoreLimit
        /\ SemaphoreLimit - sem = Cardinality(Holding)
        /\ Cardinality(Holding) <= 10
        /\ (\A i \in DOMAIN task : task[i] = "done") => sem = SemaphoreLimit

\* twelve units have ended, some of them by an exception, and all permits
\* are back
C30_Witness ==
    /\ pc = "aborted"
    /\ Len(task) = 12
    /\ \A i \in DOMAIN task : task[i] = "done"
    /\ Cardinality({ i \in DOMAIN task : normal_results[i].exc }) = 6
    /\ sem = SemaphoreLimit

====
